---- MODULE Spec2Model ----
(***************************************************************************)
(* Retail loss-prevention event detector.                                  *)
(*                                                                         *)
(* Streaming engine : src/src/detection/reatime_detection.py               *)
(* Stream client    : src/data/streaming-clients/stream_client.py          *)
(* Batch engine     : src/src/app.py + src/src/detection/all_detections.py *)
(*                                                                         *)
(* Conventions of the model                                                *)
(*  - a timestamp string is [t |-> seconds, tz |-> suffix]; tz = "bad"     *)
(*    is a string datetime.fromisoformat rejects; a datetime is the        *)
(*    integer number of seconds (naive, zone dropped);                     *)
(*  - a Python dict whose iteration order the code depends on is a         *)
(*    sequence of [key, val] entries in insertion order; the other dicts   *)
(*    are functions;                                                       *)
(*  - a record (dict) that lacks a key lacks the field: k \in DOMAIN row;  *)
(*  - prices are integer cents, weights integer grams;                     *)
(*  - event_id (a random uuid prefix) is not part of an event here; the    *)
(*    ids of the log lines are kept apart, in event_ids, by the            *)
(*    specification that follows the uuid4 draws;                          *)
(*  - a Python function with side effects is an operator from the engine   *)
(*    state st (a record of the module globals) to the state after it;     *)
(*    st.exc is set when the function raised, st.out is its return value   *)
(*    (a sequence of events; None is <<>>).                                *)
(***************************************************************************)
EXTENDS Integers, Sequences, FiniteSets, TLC

VARIABLES
    \* ---- reatime_detection.py module globals
    pos_skus_cache,             \* dict sku -> [customer_id, timestamp]
    rfid_cache,                 \* dict <<timestamp string, station>> -> [sku, timestamp]
    product_recognition_cache,  \* dict <<timestamp string, station>> -> [predicted_sku, timestamp]
    product_data_cache,         \* catalog: sku or barcode -> [price, weight, quantity]
    error_aggregation,          \* station -> (interval -> count)
    queue_state,                \* station -> [start_time, flagged]
    sales_count,                \* sku -> count
    rows_processed,
    log,                        \* logs/realtime_events.jsonl, one event per line
    \* ---- environment and stream client
    now,                        \* wall clock, seconds
    client,                     \* StreamDetectionClient: "streaming" | "exited"
    detection_count,            \* StreamDetectionClient.detection_count
    ret,                        \* return value of the last process_incoming_row
    event_ids,                  \* the uuid4 drawn for each log line and its event_id
    \* ---- RealTimeDetectionApp (batch engine)
    rfid_data, pos_data, queue_data, product_recognition, inventory_data,
    processed_events,           \* set of dedup keys
    events_file,                \* output/test/events.jsonl
    expected_inventory,         \* detect_inventory_discrepancy's local, last run
    export,                     \* all_detections.py __main__: the events detected and
                                \* the list written to detection_events_*.jsonl
    self_product_data,          \* RealTimeDetectionApp.product_data
    app,                        \* app.py main: "start" | "running"
    \* ---- start of the processes
    catalog_file,               \* products_list.csv: "ok" | "missing" | "unreadable"
    replay,                     \* reatime_detection.py __main__: "start", the loop
                                \* it is in, "done" | "crashed"
    \* ---- history of the inputs (not program state)
    last,                       \* the last call: its row, source, log length before it
    err_seen,                   \* <<station, interval>> -> error records dispatched
    pos_seen,                   \* sku -> POS records received (either engine)
    run                         \* station -> the current above-threshold run

engine_vars == <<pos_skus_cache, rfid_cache, product_recognition_cache,
                 product_data_cache, error_aggregation, queue_state,
                 sales_count, rows_processed, log>>
client_vars == <<client, detection_count, ret>>
app_vars == <<rfid_data, pos_data, queue_data, product_recognition,
              inventory_data, processed_events, events_file, expected_inventory>>
hist_vars == <<last, err_seen, pos_seen, run>>
start_vars == <<catalog_file, self_product_data, app, replay>>
vars == <<engine_vars, now, client_vars, event_ids, export, app_vars, hist_vars,
          start_vars>>

----------------------------------------------------------------------------
(* Configuration, reatime_detection.py lines 10-12 *)
CACHE_WINDOW_MINUTES == 30
CLEANUP_INTERVAL == 100
MAX_CACHE_SIZE == 10000

(* Python values *)
None == "<None>"
Truthy(x) == x \notin {None, ""}
Abs(x) == IF x < 0 THEN -x ELSE x
Has(d, k) == k \in DOMAIN d
Get(d, k, default) == IF k \in DOMAIN d THEN d[k] ELSE default
HasAll(d, keys) == keys \subseteq DOMAIN d

(* Insertion-ordered dict *)
DictKeys(d) == {d[i].key : i \in 1..Len(d)}
DictHas(d, k) == k \in DictKeys(d)
DictGet(d, k) == d[CHOOSE i \in 1..Len(d) : d[i].key = k].val
\* variant that keeps the value a key already has
DictPut_mut(d, k, v) ==
    IF DictHas(d, k) THEN d ELSE Append(d, [key |-> k, val |-> v])
DictPut(d, k, v) ==
    IF DictHas(d, k)
    THEN [i \in 1..Len(d) |-> IF d[i].key = k THEN [key |-> k, val |-> v] ELSE d[i]]
    ELSE Append(d, [key |-> k, val |-> v])
DictDel(d, K) == SelectSeq(d, LAMBDA e : e.key \notin K)

(* defaultdict / plain dict as a function *)
FnPut(f, k, v) == [x \in DOMAIN f \cup {k} |-> IF x = k THEN v ELSE f[x]]
FnDel(f, K) == [x \in DOMAIN f \ K |-> f[x]]

(* Timestamps *)
TS(t) == [t |-> t, tz |-> ""]
BadTS == [t |-> 0, tz |-> "bad"]
isoformat(dt) == [t |-> dt, tz |-> ""]

\* variant that reads a time out of any string
parse_timestamp_mut(timestamp_str, wall) == timestamp_str.t

\* parse_timestamp: the zone suffix is dropped without conversion; a string
\* that does not parse gives the wall clock.
parse_timestamp(timestamp_str, wall) ==
    IF timestamp_str.tz \in {"bad", "Unknown"} THEN wall ELSE timestamp_str.t

----------------------------------------------------------------------------
(* The engine state handed from one function of reatime_detection.py to the
   next: the module globals, the wall clock, and the control outcome. *)
EngineState ==
    [pos |-> pos_skus_cache, rfid |-> rfid_cache, rec |-> product_recognition_cache,
     cat |-> product_data_cache, err |-> error_aggregation, q |-> queue_state,
     sales |-> sales_count, rows |-> rows_processed, log |-> log,
     wall |-> now, exc |-> FALSE, out |-> <<>>, kind |-> "None", cleaned |-> FALSE]

Raise(st) == [st EXCEPT !.exc = TRUE, !.out = <<>>]
\* st.out collects, in order, what the rules of one dispatch return
Return(st, events) == [st EXCEPT !.out = @ \o events]

\* variant that opens the file for writing instead of appending
log_event_mut(st, event) == [st EXCEPT !.log = <<event>>]
\* log_event: one line appended to logs/realtime_events.jsonl
log_event(st, event) == [st EXCEPT !.log = Append(@, event)]

(* sorted(cache.items(), key=timestamp): a stable sort, that is, for each
   timestamp in increasing order, the items that carry it in their order in
   the dict *)
stamps(d) == {d[i].val.timestamp : i \in 1..Len(d)}
RECURSIVE sorted_from(_, _)
sorted_from(d, T) ==
    IF T = {} THEN <<>>
    ELSE LET t == CHOOSE x \in T : \A y \in T : x <= y
         IN  SelectSeq(d, LAMBDA e : e.val.timestamp = t) \o sorted_from(d, T \ {t})

\* variant that leaves the items in the order of the dict
sorted_items_mut(d) == d

sorted_items(d) == sorted_from(d, stamps(d))

\* variant that also expires an entry exactly as old as the window
expired_keys_mut(d, current_time) ==
    {d[i].key : i \in {j \in 1..Len(d) :
        current_time - d[j].val.timestamp >= CACHE_WINDOW_MINUTES * 60}}

\* current_time - data['timestamp'] > expiration_threshold
expired_keys(d, current_time) ==
    {d[i].key : i \in {j \in 1..Len(d) :
        current_time - d[j].val.timestamp > CACHE_WINDOW_MINUTES * 60}}

\* One cache of cleanup_caches: the expired entries go, then the oldest ones
\* while the cache is over MAX_CACHE_SIZE.
clean_cache(d, current_time) ==
    LET kept == DictDel(d, expired_keys(d, current_time))
    IN  IF Len(kept) > MAX_CACHE_SIZE
        THEN LET to_remove == Len(kept) - MAX_CACHE_SIZE
                 oldest == sorted_items(kept)
             IN  DictDel(kept, {oldest[i].key : i \in 1..to_remove})
        ELSE kept

expired_intervals(intervals, current_time) ==
    {interval \in DOMAIN intervals :
        current_time - interval > CACHE_WINDOW_MINUTES * 60}

clean_error_aggregation(agg, current_time) ==
    [station_id \in DOMAIN agg |->
        FnDel(agg[station_id], expired_intervals(agg[station_id], current_time))]

\* variant that also forgets the queue runs
cleanup_caches_mut(st) ==
    [st EXCEPT !.pos = clean_cache(@, st.wall),
               !.rfid = clean_cache(@, st.wall),
               !.rec = clean_cache(@, st.wall),
               !.err = clean_error_aggregation(@, st.wall),
               !.q = <<>>,
               !.cleaned = TRUE]
cleanup_caches(st) ==
    [st EXCEPT !.pos = clean_cache(@, st.wall),
               !.rfid = clean_cache(@, st.wall),
               !.rec = clean_cache(@, st.wall),
               !.err = clean_error_aggregation(@, st.wall),
               !.cleaned = TRUE]

----------------------------------------------------------------------------
(* Rules, one row at a time *)

catalog_get(cat, key, field, default) ==
    IF key \in DOMAIN cat THEN cat[key][field] ELSE default

\* variant of the condition that ignores the POS cache
scan_avoidance_flagged_mut(st, sku, location) ==
    location = "OUT_SCAN_AREA"

\* line 129: location == 'OUT_SCAN_AREA' and sku not in pos_skus_cache
scan_avoidance_flagged(st, sku, location) ==
    location = "OUT_SCAN_AREA" /\ ~DictHas(st.pos, sku)

detect_scan_avoidance_row(st, rfid_row) ==
    IF ~(HasAll(rfid_row, {"data", "timestamp"})
         /\ HasAll(rfid_row.data, {"sku", "location"}))
    THEN Raise(st)
    ELSE
    LET sku == rfid_row.data.sku
        location == rfid_row.data.location
        station_id == Get(rfid_row, "station_id", "Unknown")
        event == [timestamp |-> rfid_row.timestamp,
                  event_data |-> [event_name |-> "Scanner Avoidance",
                                  station_id |-> station_id,
                                  customer_id |-> None,
                                  product_sku |-> sku]]
    IN  IF scan_avoidance_flagged(st, sku, location)
        THEN Return(log_event(st, event), <<event>>)
        ELSE Return(st, <<>>)

\* variant of method 1 that also flags equal prices
barcode_switch_flagged_mut(barcode_price, predicted_price, actual_sku, scanned_barcode) ==
    barcode_price <= predicted_price /\ actual_sku # scanned_barcode
\* line 181: method 1, with the prediction and the RFID reading
barcode_switch_flagged(barcode_price, predicted_price, actual_sku, scanned_barcode) ==
    barcode_price < predicted_price /\ actual_sku # scanned_barcode

\* line 200: method 2, the fallback
barcode_fallback_flagged(sku_pos, scanned_barcode, sku_price, barcode_price) ==
    sku_pos # scanned_barcode /\ sku_price # barcode_price /\ sku_price > 0

detect_barcode_switch_row(st, pos_row) ==
    IF ~(HasAll(pos_row, {"data", "timestamp"})
         /\ HasAll(pos_row.data, {"barcode", "price", "sku"}))
    THEN Raise(st)
    ELSE
    LET timestamp == pos_row.timestamp
        scanned_barcode == pos_row.data.barcode
        scanned_price == pos_row.data.price
        sku_pos == pos_row.data.sku
        station_id == Get(pos_row, "station_id", "Unknown")
        customer_id == Get(pos_row.data, "customer_id", "Unknown")
        s1 == [st EXCEPT !.pos = DictPut(@, sku_pos,
                    [customer_id |-> customer_id,
                     timestamp |-> parse_timestamp(timestamp, st.wall)])]
        sku_price == catalog_get(st.cat, sku_pos, "price", 0)
        barcode_price == catalog_get(st.cat, scanned_barcode, "price", scanned_price)
        lookup_key == <<timestamp, station_id>>
        predicted_sku == IF DictHas(st.rec, lookup_key)
                         THEN DictGet(st.rec, lookup_key).predicted_sku ELSE None
        actual_sku == IF DictHas(st.rfid, lookup_key)
                      THEN DictGet(st.rfid, lookup_key).sku ELSE None
        event(actual, actual_price) ==
            [timestamp |-> timestamp,
             event_data |-> [event_name |-> "Barcode Switching",
                             station_id |-> station_id,
                             customer_id |-> customer_id,
                             actual_sku |-> actual,
                             scanned_barcode |-> scanned_barcode,
                             scanned_price |-> barcode_price,
                             actual_price |-> actual_price,
                             price_difference |-> actual_price - barcode_price]]
    IN  IF Truthy(predicted_sku) /\ Truthy(actual_sku)
        THEN LET predicted_price == catalog_get(st.cat, predicted_sku, "price", 0)
                 actual_price == catalog_get(st.cat, actual_sku, "price", 0)
             IN  IF barcode_switch_flagged(barcode_price, predicted_price,
                                           actual_sku, scanned_barcode)
                 THEN Return(log_event(s1, event(actual_sku, actual_price)),
                             <<event(actual_sku, actual_price)>>)
                 ELSE Return(s1, <<>>)
        ELSE IF barcode_fallback_flagged(sku_pos, scanned_barcode, sku_price, barcode_price)
             THEN Return(log_event(s1, event(sku_pos, sku_price)),
                         <<event(sku_pos, sku_price)>>)
             ELSE Return(s1, <<>>)

\* variant of the comparison that flags a difference equal to the threshold
weight_breach_mut(actual_weight, expected_weight, threshold) ==
    Abs(actual_weight - expected_weight) >= threshold
\* line 235: abs(actual_weight - expected_weight) > threshold
weight_breach(actual_weight, expected_weight, threshold) ==
    Abs(actual_weight - expected_weight) > threshold

detect_weight_discrepancy_row(st, pos_row) ==
    IF ~(HasAll(pos_row, {"data", "timestamp"})
         /\ HasAll(pos_row.data, {"sku", "weight_g"}))
    THEN Raise(st)
    ELSE
    LET sku == pos_row.data.sku
        actual_weight == pos_row.data.weight_g
        station_id == Get(pos_row, "station_id", "Unknown")
        customer_id == Get(pos_row.data, "customer_id", None)
        expected_weight == catalog_get(st.cat, sku, "weight", 0)
        threshold == 5
        event == [timestamp |-> pos_row.timestamp,
                  event_data |-> [event_name |-> "Weight Discrepancies",
                                  station_id |-> station_id,
                                  customer_id |-> customer_id,
                                  product_sku |-> sku,
                                  expected_weight |-> expected_weight,
                                  actual_weight |-> actual_weight,
                                  difference |-> Abs(actual_weight - expected_weight)]]
    IN  IF weight_breach(actual_weight, expected_weight, threshold)
        THEN Return(log_event(st, event), <<event>>)
        ELSE Return(st, <<>>)

\* variant that keeps the seconds of the timestamp
interval_key_of_mut(dt, interval_minutes) ==
    dt - (((dt \div 60) % 60) % interval_minutes) * 60
\* dt.replace(second=0, microsecond=0) - timedelta(minutes=minute % interval_minutes)
interval_key_of(dt, interval_minutes) ==
    LET whole_minute == dt - (dt % 60)
        minute == (whole_minute \div 60) % 60
    IN  whole_minute - (minute % interval_minutes) * 60

error_count(agg, station_id, interval_key) ==
    IF station_id \in DOMAIN agg /\ interval_key \in DOMAIN agg[station_id]
    THEN agg[station_id][interval_key] ELSE 0

recurring_reached(count, recurring_threshold) == count = recurring_threshold

detect_system_error_row(st, data_row) ==
    IF ~Has(data_row, "status") THEN Raise(st)
    ELSE IF data_row.status \notin {"Read Error", "System Crash"} THEN Return(st, <<>>)
    ELSE IF ~Has(data_row, "timestamp") THEN Raise(st)
    ELSE
    LET interval_minutes == 10
        recurring_threshold == 3
        timestamp == data_row.timestamp
        station_id == Get(data_row, "station_id", "Unknown")
        event == [timestamp |-> timestamp,
                  event_data |-> [event_name |-> "System Error",
                                  station_id |-> station_id,
                                  error_type |-> data_row.status,
                                  duration_seconds |-> Get(data_row, "duration_seconds", None)]]
        s1 == log_event(st, event)
        dt == parse_timestamp(timestamp, st.wall)
        interval_key == interval_key_of(dt, interval_minutes)
        count == error_count(st.err, station_id, interval_key) + 1
        s2 == [s1 EXCEPT !.err = FnPut(@, station_id,
                    FnPut(Get(st.err, station_id, <<>>), interval_key, count))]
        recurring_event ==
            [timestamp |-> isoformat(interval_key),
             event_data |-> [event_name |-> "Recurring System Failures",
                             station_id |-> station_id,
                             error_count |-> recurring_threshold,
                             interval_minutes |-> interval_minutes,
                             severity |-> "MEDIUM"]]
    IN  IF recurring_reached(count, recurring_threshold)
        THEN Return(log_event(s2, recurring_event), <<event>>)
        ELSE Return(s2, <<event>>)

queue_entry(q, station_id) ==
    Get(q, station_id, [start_time |-> {}, flagged |-> {}])

long_queue_flagged(duration, duration_threshold_seconds, interval_key, flagged) ==
    duration >= duration_threshold_seconds /\ interval_key \notin flagged

\* variant that writes the entry under every station
set_queue_entry_mut(q, station_id, entry) ==
    [x \in DOMAIN q \cup {station_id} |-> entry]
\* queue_state[station_id][...] = ...
set_queue_entry(q, station_id, entry) == FnPut(q, station_id, entry)

detect_long_queue_row(st, queue_row) ==
    IF ~(HasAll(queue_row, {"data", "timestamp", "station_id"})
         /\ Has(queue_row.data, "customer_count"))
    THEN Raise(st)
    ELSE
    LET count_threshold == 5
        duration_threshold_seconds == 120
        customer_count == queue_row.data.customer_count
        timestamp == queue_row.timestamp
        station_id == queue_row.station_id
        current_time == parse_timestamp(timestamp, st.wall)
        entry == queue_entry(st.q, station_id)
    IN  IF customer_count > count_threshold
        THEN IF entry.start_time = {}
             THEN Return([st EXCEPT !.q = set_queue_entry(@, station_id,
                              [entry EXCEPT !.start_time = {current_time}])], <<>>)
             ELSE LET start_time == CHOOSE t \in entry.start_time : TRUE
                      duration == current_time - start_time
                      interval_key == isoformat(start_time)
                      event ==
                        [timestamp |-> timestamp,
                         event_data |-> [event_name |-> "Long Queue Length",
                                         station_id |-> station_id,
                                         num_of_customers |-> customer_count,
                                         queue_duration_seconds |-> duration,
                                         average_dwell_time |->
                                             Get(queue_row.data, "average_dwell_time", None)]]
                  IN  IF long_queue_flagged(duration, duration_threshold_seconds,
                                            interval_key, entry.flagged)
                      THEN Return([log_event(st, event) EXCEPT !.q = set_queue_entry(@, station_id,
                                       [entry EXCEPT !.flagged = @ \cup {interval_key}])],
                                  <<event>>)
                      ELSE Return([st EXCEPT !.q = set_queue_entry(@, station_id, entry)], <<>>)
        ELSE Return([st EXCEPT !.q = set_queue_entry(@, station_id,
                         [entry EXCEPT !.start_time = {}])], <<>>)

detect_extended_wait_row(st, queue_row) ==
    IF ~(Has(queue_row, "data") /\ Has(queue_row.data, "average_dwell_time"))
    THEN Raise(st)
    ELSE
    LET dwell_threshold == 300
        avg_dwell == queue_row.data.average_dwell_time
    IN  IF avg_dwell > dwell_threshold
        THEN IF ~(Has(queue_row.data, "customer_count")
                  /\ HasAll(queue_row, {"timestamp", "station_id"}))
             THEN Raise(st)
             ELSE
             LET customer_count == queue_row.data.customer_count
                 \* avg_dwell > dwell_threshold * 1.5
                 priority == IF 2 * avg_dwell > 3 * dwell_threshold /\ customer_count > 5
                             THEN "HIGH" ELSE "MEDIUM"
                 event == [timestamp |-> queue_row.timestamp,
                           event_data |-> [event_name |-> "Long Wait Time",
                                           station_id |-> queue_row.station_id,
                                           wait_time_seconds |-> avg_dwell,
                                           customer_count |-> customer_count,
                                           priority |-> priority]]
             IN  Return(log_event(st, event), <<event>>)
        ELSE Return(st, <<>>)

\* variant of the comparison that flags a difference equal to the tolerance
inventory_breach_mut(expected_qty, actual_qty, tolerance) ==
    Abs(expected_qty - actual_qty) >= tolerance

\* line 397: abs(expected_qty - actual_qty) > tolerance
inventory_breach(expected_qty, actual_qty, tolerance) ==
    Abs(expected_qty - actual_qty) > tolerance

inventory_event(st, timestamp, sku, actual_qty) ==
    LET expected_qty == catalog_get(st.cat, sku, "quantity", 0) - Get(st.sales, sku, 0)
    IN  [timestamp |-> timestamp,
         event_data |-> [event_name |-> "Inventory Discrepancy",
                         SKU |-> sku,
                         Expected_Inventory |-> expected_qty,
                         Actual_Inventory |-> actual_qty,
                         Discrepancy |-> Abs(expected_qty - actual_qty),
                         Type |-> IF actual_qty < expected_qty
                                  THEN "Shrinkage" ELSE "Overage",
                         Units_Sold |-> Get(st.sales, sku, 0)]]

RECURSIVE inventory_events(_, _, _, _)
inventory_events(st, timestamp, items, tolerance) ==
    IF items = <<>> THEN <<>>
    ELSE LET sku == Head(items).key
             actual_qty == Head(items).val
             expected_qty == catalog_get(st.cat, sku, "quantity", 0) - Get(st.sales, sku, 0)
             rest == inventory_events(st, timestamp, Tail(items), tolerance)
         IN  IF inventory_breach(expected_qty, actual_qty, tolerance)
             THEN <<inventory_event(st, timestamp, sku, actual_qty)>> \o rest
             ELSE rest

detect_inventory_discrepancy_row(st, inventory_row) ==
    IF ~Has(inventory_row, "data") THEN Raise(st)
    ELSE
    LET tolerance == 1
        timestamp == Get(inventory_row, "timestamp", [t |-> 0, tz |-> "Unknown"])
        events == inventory_events(st, timestamp, inventory_row.data, tolerance)
    IN  Return([st EXCEPT !.log = @ \o events], events)

----------------------------------------------------------------------------
(* Cache updates *)

update_rfid_cache(st, rfid_row) ==
    IF ~(HasAll(rfid_row, {"data", "timestamp"}) /\ Has(rfid_row.data, "sku"))
    THEN Raise(st)
    ELSE
    LET timestamp == rfid_row.timestamp
        key == <<timestamp, Get(rfid_row, "station_id", "Unknown")>>
    IN  [st EXCEPT !.rfid = DictPut(@, key,
            [sku |-> rfid_row.data.sku,
             timestamp |-> parse_timestamp(timestamp, st.wall)])]

update_product_recognition_cache(st, recognition_row) ==
    IF ~(HasAll(recognition_row, {"data", "timestamp"})
         /\ Has(recognition_row.data, "predicted_product"))
    THEN Raise(st)
    ELSE
    LET timestamp == recognition_row.timestamp
        key == <<timestamp, Get(recognition_row, "station_id", "Unknown")>>
    IN  [st EXCEPT !.rec = DictPut(@, key,
            [predicted_sku |-> recognition_row.data.predicted_product,
             timestamp |-> parse_timestamp(timestamp, st.wall)])]

\* variant that does not count the transaction
update_pos_cache_mut(st, pos_row) ==
    IF ~(Has(pos_row, "data") /\ Has(pos_row.data, "sku")) THEN Raise(st) ELSE st
update_pos_cache(st, pos_row) ==
    IF ~(Has(pos_row, "data") /\ Has(pos_row.data, "sku")) THEN Raise(st)
    ELSE [st EXCEPT !.sales = FnPut(@, pos_row.data.sku,
                                    Get(st.sales, pos_row.data.sku, 0) + 1)]

\* variant that files a product under its barcode without its quantity
RECURSIVE load_product_data_mut(_, _)
load_product_data_mut(cat, product_data) ==
    IF product_data = <<>> THEN cat
    ELSE LET p == Head(product_data)
             entry == [price |-> Get(p, "price", 0),
                       weight |-> Get(p, "weight", 0),
                       quantity |-> Get(p, "quantity", 0)]
             c1 == FnPut(cat, p.SKU, entry)
             barcode == Get(p, "barcode", None)
             c2 == IF Truthy(barcode) THEN FnPut(c1, barcode, [entry EXCEPT !.quantity = 0])
                   ELSE c1
         IN  load_product_data_mut(c2, Tail(product_data))
RECURSIVE load_product_data(_, _)
load_product_data(cat, product_data) ==
    IF product_data = <<>> THEN cat
    ELSE LET p == Head(product_data)
             entry == [price |-> Get(p, "price", 0),
                       weight |-> Get(p, "weight", 0),
                       quantity |-> Get(p, "quantity", 0)]
             c1 == FnPut(cat, p.SKU, entry)
             barcode == Get(p, "barcode", None)
             c2 == IF Truthy(barcode) THEN FnPut(c1, barcode, entry) ELSE c1
         IN  load_product_data(c2, Tail(product_data))

----------------------------------------------------------------------------
(* The dispatcher *)

\* variant that cleans every second interval
cleanup_due_rare_mut(rows) == rows % (2 * CLEANUP_INTERVAL) = 0
\* variant that cleans one call late
cleanup_due_mut(rows) == rows % CLEANUP_INTERVAL = 1
cleanup_due(rows) == rows % CLEANUP_INTERVAL = 0

\* Statement sequencing: the next statement runs unless the previous raised.
Then(st, next(_)) == IF st.exc THEN st ELSE next(st)

\* events = []; if x_event: events.append(x_event); return events if events else None
returns_list(st) == [st EXCEPT !.kind = IF st.out = <<>> THEN "None" ELSE "list"]
\* return detect_x(row): one event or None
returns_event(st) == [st EXCEPT !.kind = IF st.out = <<>> THEN "None" ELSE "event"]

count_row(st) == [st EXCEPT !.rows = @ + 1]
periodic_cleanup(st) == IF cleanup_due(st.rows) THEN cleanup_caches(st) ELSE st

\* variant that also runs the system error rule on an RFID record
dispatch_rfid_errors_mut(st, row, data_source) ==
    CASE data_source = "rfid" ->
           Then(Then(Then(update_rfid_cache(st, row),
                LAMBDA s : detect_scan_avoidance_row(s, row)),
                LAMBDA s : detect_system_error_row(s, row)),
                returns_list)
      [] data_source = "pos" ->
           Then(Then(Then(Then(update_pos_cache(st, row),
                LAMBDA s : detect_barcode_switch_row(s, row)),
                LAMBDA s : detect_weight_discrepancy_row(s, row)),
                LAMBDA s : detect_system_error_row(s, row)),
                returns_list)
      [] data_source = "queue" ->
           Then(Then(Then(detect_long_queue_row(st, row),
                LAMBDA s : detect_extended_wait_row(s, row)),
                LAMBDA s : detect_system_error_row(s, row)),
                returns_list)
      [] data_source = "product_recognition" ->
           Then(Then(update_product_recognition_cache(st, row),
                LAMBDA s : detect_system_error_row(s, row)),
                returns_event)
      [] data_source = "inventory" ->
           Then(detect_inventory_discrepancy_row(st, row), returns_list)
      [] OTHER -> st
\* variant that weighs a POS record before it compares the barcode
dispatch_mut(st, row, data_source) ==
    CASE data_source = "rfid" ->
           Then(Then(update_rfid_cache(st, row),
                LAMBDA s : detect_scan_avoidance_row(s, row)),
                returns_event)
      [] data_source = "pos" ->
           Then(Then(Then(Then(update_pos_cache(st, row),
                LAMBDA s : detect_weight_discrepancy_row(s, row)),
                LAMBDA s : detect_barcode_switch_row(s, row)),
                LAMBDA s : detect_system_error_row(s, row)),
                returns_list)
      [] data_source = "queue" ->
           Then(Then(Then(detect_long_queue_row(st, row),
                LAMBDA s : detect_extended_wait_row(s, row)),
                LAMBDA s : detect_system_error_row(s, row)),
                returns_list)
      [] data_source = "product_recognition" ->
           Then(Then(update_product_recognition_cache(st, row),
                LAMBDA s : detect_system_error_row(s, row)),
                returns_event)
      [] data_source = "inventory" ->
           Then(detect_inventory_discrepancy_row(st, row), returns_list)
      [] OTHER -> st
dispatch(st, row, data_source) ==
    CASE data_source = "rfid" ->
           Then(Then(update_rfid_cache(st, row),
                LAMBDA s : detect_scan_avoidance_row(s, row)),
                returns_event)
      [] data_source = "pos" ->
           Then(Then(Then(Then(update_pos_cache(st, row),
                LAMBDA s : detect_barcode_switch_row(s, row)),
                LAMBDA s : detect_weight_discrepancy_row(s, row)),
                LAMBDA s : detect_system_error_row(s, row)),
                returns_list)
      [] data_source = "queue" ->
           Then(Then(Then(detect_long_queue_row(st, row),
                LAMBDA s : detect_extended_wait_row(s, row)),
                LAMBDA s : detect_system_error_row(s, row)),
                returns_list)
      [] data_source = "product_recognition" ->
           Then(Then(update_product_recognition_cache(st, row),
                LAMBDA s : detect_system_error_row(s, row)),
                returns_event)
      [] data_source = "inventory" ->
           Then(detect_inventory_discrepancy_row(st, row), returns_list)
      [] OTHER -> st

process_incoming_row(st, row, data_source) ==
    dispatch(periodic_cleanup(count_row(st)), row, data_source)

----------------------------------------------------------------------------
(* The stream client, stream_client.py *)

dataset_map ==
    [POS_Transactions |-> "pos", RFID_data |-> "rfid", Queue_monitor |-> "queue",
     Product_recognism |-> "product_recognition", Current_inventory_data |-> "inventory"]

\* if isinstance(result, list): += len(result) else: += 1
detections_counted(st) ==
    IF st.kind = "list" THEN Len(st.out) ELSE IF st.kind = "event" THEN 1 ELSE 0

(* History of the inputs *)
is_error_row(row, source_type) ==
    /\ source_type \in {"pos", "queue", "product_recognition"}
    /\ Has(row, "status") /\ row.status \in {"Read Error", "System Crash"}
    /\ Has(row, "timestamp")

error_key(row, wall) ==
    <<Get(row, "station_id", "Unknown"),
      interval_key_of(parse_timestamp(row.timestamp, wall), 10)>>

long_queue_events(events, station_id) ==
    SelectSeq(events, LAMBDA e : e.event_data.event_name = "Long Queue Length"
                                  /\ e.event_data.station_id = station_id)

\* The run of consecutive above-threshold records a station is in, from the
\* records alone: its first timestamp, whether its records came in
\* non-decreasing time order, whether one of them lies 120 s or more after
\* the first, how many Long Queue Length events its records emitted, and
\* whether it began after a record at or below the threshold.
no_run == [active |-> FALSE, first |-> 0, latest |-> 0, ordered |-> TRUE,
           reached |-> FALSE, emitted |-> 0, after_reset |-> FALSE]

run_after(r, row, wall, emitted) ==
    LET t == parse_timestamp(row.timestamp, wall)
    IN  IF row.data.customer_count > 5
        THEN IF r.active
             THEN [r EXCEPT !.latest = t,
                            !.ordered = @ /\ t >= r.latest,
                            !.reached = @ \/ t - r.first >= 120,
                            !.emitted = @ + emitted]
             ELSE [r EXCEPT !.active = TRUE, !.first = t, !.latest = t,
                            !.ordered = TRUE, !.reached = FALSE,
                            !.emitted = emitted]
        ELSE [no_run EXCEPT !.after_reset = TRUE]

History(frame, source_type, st) ==
    LET row == frame.event
    IN  /\ last' = [op |-> "process_incoming_row", row |-> row, source |-> source_type,
                    log_before |-> Len(log), raised |-> st.exc,
                    cleaned |-> st.cleaned, calls |-> Get(last, "calls", 0) + 1,
                    wall |-> now]
        /\ err_seen' = IF is_error_row(row, source_type)
                       THEN FnPut(err_seen, error_key(row, now),
                                  Get(err_seen, error_key(row, now), 0) + 1)
                       ELSE err_seen
        /\ pos_seen' = IF source_type = "pos" /\ Has(row, "data") /\ Has(row.data, "sku")
                       THEN FnPut(pos_seen, row.data.sku, Get(pos_seen, row.data.sku, 0) + 1)
                       ELSE pos_seen
        /\ run' = IF /\ source_type = "queue"
                     /\ HasAll(row, {"data", "timestamp", "station_id"})
                     /\ Has(row.data, "customer_count")
                  THEN FnPut(run, row.station_id,
                             run_after(Get(run, row.station_id, no_run), row, now,
                                       Len(long_queue_events(
                                           SubSeq(st.log, Len(log) + 1, Len(st.log)),
                                           row.station_id))))
                  ELSE run

\* What an exception escaping process_incoming_row does to the client:
\* connect_and_process catches it, prints it and calls sys.exit(1).
client_after(raised) == IF raised THEN "exited" ELSE "streaming"

\* The module globals, the client and the history after process_incoming_row
\* ended in st
after_call(frame, source_type, st) ==
    /\ pos_skus_cache' = st.pos
    /\ rfid_cache' = st.rfid
    /\ product_recognition_cache' = st.rec
    /\ product_data_cache' = st.cat
    /\ error_aggregation' = st.err
    /\ queue_state' = st.q
    /\ sales_count' = st.sales
    /\ rows_processed' = st.rows
    /\ log' = st.log
    /\ client' = client_after(st.exc)
    /\ detection_count' = detection_count + detections_counted(st)
    /\ ret' = [kind |-> st.kind, events |-> st.out]
    /\ History(frame, source_type, st)

\* StreamDetectionClient._process_event, with the call of process_incoming_row
client_step(frame) ==
    /\ client = "streaming"
    /\ IF ~Has(frame, "event") \/ ~Has(dataset_map, Get(frame, "dataset", None))
       THEN UNCHANGED <<engine_vars, client_vars, hist_vars>>
       ELSE after_call(frame, dataset_map[frame.dataset],
                       process_incoming_row(EngineState, frame.event,
                                            dataset_map[frame.dataset]))
    /\ UNCHANGED <<now, export, app_vars, start_vars>>

\* the same, the event ids not followed
process_event(frame) == client_step(frame) /\ UNCHANGED event_ids

\* f"E{str(uuid.uuid4())[:8]}": the letter E and the first characters of the
\* uuid's text.  A uuid4 is [head |-> its first 8 hexadecimal characters,
\* rest |-> the remaining ones].
event_id(uuid, length) == <<"E">> \o SubSeq(uuid.head, 1, length)

\* The uuid4 draws of the events a call logged, one per line: a draw never
\* repeats an earlier uuid.
drawn_uuids == {event_ids[i].uuid : i \in 1..Len(event_ids)}
fresh_draws(draws, lines) ==
    /\ \A i \in 1..lines : draws[i] \notin drawn_uuids
    /\ \A i, j \in 1..lines : draws[i] = draws[j] => i = j
ids_of(draws, lines, length) ==
    [i \in 1..lines |-> [uuid |-> draws[i], id |-> event_id(draws[i], length)]]

\* _process_event with the event_id of every line the call logged
process_event_ids(frame, draws) ==
    /\ client_step(frame)
    /\ fresh_draws(draws, Len(log') - Len(log))
    /\ event_ids' = event_ids \o ids_of(draws, Len(log') - Len(log), 8)

\* The wall clock advances between two records.
TickStep == CACHE_WINDOW_MINUTES * 60
Now0 == 2 * TickStep
MaxTicks == 2
Tick ==
    /\ now - Now0 < MaxTicks * TickStep
    /\ now' = now + TickStep
    /\ UNCHANGED <<engine_vars, client_vars, event_ids, export, app_vars, hist_vars, start_vars>>

----------------------------------------------------------------------------
(* The batch engine: all_detections.py over the buffers of
   RealTimeDetectionApp.  The payloads carry their source's data fields;
   status is the one optional key. *)

MapSeq(s, F(_)) == [i \in 1..Len(s) |-> F(s[i])]

RECURSIVE SortedSeq(_)
SortedSeq(S) ==
    IF S = {} THEN <<>>
    ELSE LET lo == CHOOSE x \in S : \A y \in S : x <= y
         IN  <<lo>> \o SortedSeq(S \ {lo})

RECURSIVE Flatten(_)
Flatten(ss) == IF ss = <<>> THEN <<>> ELSE Head(ss) \o Flatten(Tail(ss))

\* {key(x): val(x) for x in s}: the last one of a key wins
last_index(s, key(_), k) ==
    CHOOSE i \in 1..Len(s) : key(s[i]) = k /\ \A j \in (i+1)..Len(s) : key(s[j]) # k

lookup_key_of(r) == <<r.timestamp, Get(r, "station_id", "Unknown")>>

detect_scan_avoidance(rfid, pos) ==
    LET pos_skus == {pos[i].data.sku : i \in 1..Len(pos)}
        flagged == SelectSeq(rfid, LAMBDA tag :
                       tag.data.location = "OUT_SCAN_AREA" /\ tag.data.sku \notin pos_skus)
        event(tag) == [timestamp |-> tag.timestamp,
                       event_data |-> [event_name |-> "Scanner Avoidance",
                                       station_id |-> Get(tag, "station_id", "Unknown"),
                                       customer_id |-> None,
                                       product_sku |-> tag.data.sku]]
    IN  MapSeq(flagged, event)

\* product_prices: by SKU, then updated by barcode
product_price(products, code, default) ==
    IF \E i \in 1..Len(products) : products[i].barcode = code
    THEN products[last_index(products, LAMBDA p : p.barcode, code)].price
    ELSE IF \E i \in 1..Len(products) : products[i].SKU = code
    THEN products[last_index(products, LAMBDA p : p.SKU, code)].price
    ELSE default

tx_key_of(tx) == <<tx.timestamp, Get(tx, "station_id", "Unknown"),
                   Get(tx.data, "customer_id", "Unknown"), tx.data.sku>>

barcode_switch_events(tx, rfid, products, recognition) ==
    LET timestamp == tx.timestamp
        scanned_barcode == tx.data.barcode
        scanned_price == tx.data.price
        sku_pos == tx.data.sku
        station_id == Get(tx, "station_id", "Unknown")
        customer_id == Get(tx.data, "customer_id", "Unknown")
        lookup_key == <<timestamp, station_id>>
        predicted_sku ==
            IF \E i \in 1..Len(recognition) : lookup_key_of(recognition[i]) = lookup_key
            THEN recognition[last_index(recognition, lookup_key_of, lookup_key)]
                     .data.predicted_product
            ELSE None
        actual_sku ==
            IF \E i \in 1..Len(rfid) : lookup_key_of(rfid[i]) = lookup_key
            THEN rfid[last_index(rfid, lookup_key_of, lookup_key)].data.sku
            ELSE None
        barcode_price == product_price(products, scanned_barcode, scanned_price)
        event(actual, actual_price) ==
            [timestamp |-> timestamp,
             event_data |-> [event_name |-> "Barcode Switching",
                             station_id |-> station_id,
                             customer_id |-> customer_id,
                             actual_sku |-> actual,
                             scanned_barcode |-> scanned_barcode,
                             scanned_price |-> barcode_price,
                             actual_price |-> actual_price,
                             price_difference |-> actual_price - barcode_price]]
    IN  IF Truthy(predicted_sku) /\ Truthy(actual_sku) /\ Truthy(scanned_barcode)
        THEN LET predicted_price == product_price(products, predicted_sku, 0)
                 actual_price == product_price(products, actual_sku, 0)
             IN  IF barcode_price < predicted_price /\ actual_sku # scanned_barcode
                 THEN <<event(actual_sku, actual_price)>> ELSE <<>>
        ELSE IF Truthy(sku_pos) /\ Truthy(scanned_barcode) /\ sku_pos # scanned_barcode
        THEN LET sku_price == product_price(products, sku_pos, 0)
             IN  IF sku_price # barcode_price
                 THEN <<event(sku_pos, sku_price)>> ELSE <<>>
        ELSE <<>>

detect_barcode_switch(pos, rfid, products, recognition) ==
    LET first_of_key == {i \in 1..Len(pos) :
                            \A j \in 1..(i-1) : tx_key_of(pos[j]) # tx_key_of(pos[i])}
        flagged == SelectSeq([i \in 1..Len(pos) |-> i], LAMBDA i :
                       /\ i \in first_of_key
                       /\ barcode_switch_events(pos[i], rfid, products, recognition) # <<>>)
    IN  [n \in 1..Len(flagged) |->
            barcode_switch_events(pos[flagged[n]], rfid, products, recognition)[1]]

\* product_weights: by SKU only
product_weight(products, sku) ==
    IF \E i \in 1..Len(products) : products[i].SKU = sku
    THEN products[last_index(products, LAMBDA p : p.SKU, sku)].weight
    ELSE 0

detect_weight_discrepancy(pos, products) ==
    LET threshold == 5
        flagged == SelectSeq(pos, LAMBDA tx :
                       Abs(tx.data.weight_g - product_weight(products, tx.data.sku)) > threshold)
        event(tx) ==
            [timestamp |-> tx.timestamp,
             event_data |-> [event_name |-> "Weight Discrepancies",
                             station_id |-> Get(tx, "station_id", "Unknown"),
                             customer_id |-> Get(tx.data, "customer_id", None),
                             product_sku |-> tx.data.sku,
                             expected_weight |-> product_weight(products, tx.data.sku),
                             actual_weight |-> tx.data.weight_g,
                             difference |-> Abs(tx.data.weight_g
                                                - product_weight(products, tx.data.sku))]]
    IN  MapSeq(flagged, event)

\* datetime.fromisoformat(timestamp.replace('Z', '+00:00')): the zone is kept
fromisoformat_ok(timestamp) == timestamp.tz \notin {"bad", "Unknown"}
fromisoformat(timestamp) ==
    [t |-> timestamp.t, tz |-> IF timestamp.tz = "Z" THEN "+00:00" ELSE timestamp.tz]

batch_interval_key(timestamp, interval_minutes) ==
    [fromisoformat(timestamp) EXCEPT !.t = interval_key_of(@, interval_minutes)]

\* record['status'] of a record without one
system_errors_raises(datasets) ==
    \E i \in 1..Len(datasets) : ~Has(datasets[i], "status")

detect_system_errors(datasets) ==
    LET interval_minutes == 10
        recurring_threshold == 3
        errors == SelectSeq(datasets, LAMBDA r : r.status \in {"Read Error", "System Crash"})
        event(r) == [timestamp |-> r.timestamp,
                     event_data |-> [event_name |-> "System Error",
                                     station_id |-> Get(r, "station_id", "Unknown"),
                                     error_type |-> r.status,
                                     duration_seconds |-> Get(r, "duration_seconds", None)]]
        key(i) == <<Get(errors[i], "station_id", "Unknown"),
                    batch_interval_key(errors[i].timestamp, interval_minutes)>>
        counted == {i \in 1..Len(errors) : fromisoformat_ok(errors[i].timestamp)}
        count(k) == Cardinality({i \in counted : key(i) = k})
        first_station(i) == CHOOSE j \in counted :
                                /\ key(j)[1] = key(i)[1]
                                /\ \A h \in counted : key(h)[1] = key(i)[1] => j <= h
        \* dict order: stations as first seen, then each station's intervals
        firsts == {i \in counted : \A j \in counted : j < i => key(j) # key(i)}
        rank(i) == first_station(i) * (Len(errors) + 1) + i
        order == SortedSeq({rank(i) : i \in firsts})
        at(r) == CHOOSE i \in firsts : rank(i) = r
        recurring(r) ==
            LET k == key(at(r))
            IN  IF count(k) >= recurring_threshold
                THEN <<[timestamp |-> k[2],
                        event_data |-> [event_name |-> "Recurring System Failures",
                                        station_id |-> k[1],
                                        error_count |-> count(k),
                                        interval_minutes |-> interval_minutes,
                                        severity |-> IF count(k) >= recurring_threshold * 2
                                                     THEN "HIGH" ELSE "MEDIUM"]]>>
                ELSE <<>>
    IN  MapSeq(errors, event) \o Flatten(MapSeq(order, recurring))

\* records.sort(key=lambda x: x['timestamp']): the strings compare by their
\* date and time, then by their suffix
tz_rank(tz) == IF tz = "" THEN 0 ELSE IF tz = "Z" THEN 1 ELSE 2
timestamp_le(a, b) == a.t < b.t \/ (a.t = b.t /\ tz_rank(a.tz) <= tz_rank(b.tz))

RECURSIVE sort_by_timestamp(_)
sort_by_timestamp(records) ==
    IF records = <<>> THEN <<>>
    ELSE LET lo == CHOOSE i \in 1..Len(records) :
                       /\ \A j \in 1..Len(records) :
                              timestamp_le(records[i].timestamp, records[j].timestamp)
                       /\ \A j \in 1..(i-1) :
                              ~timestamp_le(records[j].timestamp, records[i].timestamp)
             rest == [j \in 1..(Len(records)-1) |->
                         IF j < lo THEN records[j] ELSE records[j+1]]
         IN  <<records[lo]>> \o sort_by_timestamp(rest)

\* One station's loop of detect_long_queue; an exception in a try block skips
\* the record (continue).
RECURSIVE long_queue_scan(_, _, _, _)
long_queue_scan(records, station_id, long_queue_start, flagged_intervals) ==
    IF records = <<>> THEN <<>>
    ELSE
    LET count_threshold == 5
        duration_threshold_seconds == 120
        record == Head(records)
        customer_count == record.data.customer_count
        timestamp == record.timestamp
        keep == long_queue_scan(Tail(records), station_id,
                                long_queue_start, flagged_intervals)
    IN  IF customer_count > count_threshold
        THEN IF long_queue_start = {}
             THEN IF fromisoformat_ok(timestamp)
                  THEN long_queue_scan(Tail(records), station_id,
                                       {fromisoformat(timestamp)}, flagged_intervals)
                  ELSE keep
             ELSE LET start == CHOOSE x \in long_queue_start : TRUE
                      current_time == fromisoformat(timestamp)
                      \* an aware and a naive datetime do not subtract
                      subtracts == (current_time.tz = "") = (start.tz = "")
                      long_queue_duration == current_time.t - start.t
                      interval_key == <<station_id, start>>
                      event ==
                        [timestamp |-> timestamp,
                         event_data |-> [event_name |-> "Long Queue Length",
                                         station_id |-> station_id,
                                         num_of_customers |-> customer_count,
                                         queue_duration_seconds |-> long_queue_duration,
                                         average_dwell_time |->
                                             Get(record.data, "average_dwell_time", None)]]
                  IN  IF ~fromisoformat_ok(timestamp) \/ ~subtracts THEN keep
                      ELSE IF /\ long_queue_duration >= duration_threshold_seconds
                              /\ interval_key \notin flagged_intervals
                      THEN <<event>> \o long_queue_scan(Tail(records), station_id,
                               long_queue_start, flagged_intervals \cup {interval_key})
                      ELSE keep
        ELSE long_queue_scan(Tail(records), station_id, {}, flagged_intervals)

detect_long_queue(queue) ==
    LET firsts == {i \in 1..Len(queue) :
                      \A j \in 1..(i-1) : queue[j].station_id # queue[i].station_id}
        order == SortedSeq(firsts)
        of_station(i) ==
            long_queue_scan(
                sort_by_timestamp(SelectSeq(queue, LAMBDA q : q.station_id = queue[i].station_id)),
                queue[i].station_id, {}, {})
    IN  Flatten(MapSeq(order, of_station))

detect_extended_wait(queue) ==
    LET dwell_threshold == 300
        flagged == SelectSeq(queue, LAMBDA q : q.data.average_dwell_time > dwell_threshold)
        event(q) ==
            [timestamp |-> q.timestamp,
             event_data |-> [event_name |-> "Long Wait Time",
                             station_id |-> q.station_id,
                             wait_time_seconds |-> q.data.average_dwell_time,
                             customer_count |-> q.data.customer_count,
                             priority |-> IF /\ 2 * q.data.average_dwell_time > 3 * dwell_threshold
                                             /\ q.data.customer_count > 5
                                          THEN "HIGH" ELSE "MEDIUM"]]
    IN  MapSeq(flagged, event)

\* sales_count of detect_inventory_discrepancy: one per POS record in pos_data
batch_sales_count(pos, sku) ==
    Cardinality({i \in 1..Len(pos) : pos[i].data.sku = sku})

\* expected_inventory after the sales are subtracted, by catalog SKU
batch_expected_inventory(pos, products) ==
    [sku \in {products[i].SKU : i \in 1..Len(products)} |->
        products[last_index(products, LAMBDA p : p.SKU, sku)].quantity
            - batch_sales_count(pos, sku)]

detect_inventory_discrepancy(current_inventory, pos, products) ==
    IF current_inventory = <<>> THEN <<>>
    ELSE
    LET tolerance == 1
        latest_inventory == current_inventory[Len(current_inventory)]
        expected == batch_expected_inventory(pos, products)
        expected_qty(item) == Get(expected, item.key, 0)
        flagged == SelectSeq(latest_inventory.data, LAMBDA item :
                       Abs(expected_qty(item) - item.val) > tolerance)
        event(item) ==
            [timestamp |-> Get(latest_inventory, "timestamp", [t |-> 0, tz |-> "Unknown"]),
             event_data |-> [event_name |-> "Inventory Discrepancy",
                             SKU |-> item.key,
                             Expected_Inventory |-> expected_qty(item),
                             Actual_Inventory |-> item.val,
                             Discrepancy |-> Abs(expected_qty(item) - item.val),
                             Type |-> IF item.val < expected_qty(item)
                                      THEN "Shrinkage" ELSE "Overage",
                             Units_Sold |-> batch_sales_count(pos, item.key)]]
    IN  MapSeq(flagged, event)

----------------------------------------------------------------------------
(* RealTimeDetectionApp, app.py *)

buffer_size == 1000

\* variant that keeps the oldest records
trim_mut(buffer) ==
    IF Len(buffer) > buffer_size THEN SubSeq(buffer, 1, buffer_size) ELSE buffer
\* buffer[-self.buffer_size:]
trim(buffer) ==
    IF Len(buffer) > buffer_size
    THEN SubSeq(buffer, Len(buffer) - buffer_size + 1, Len(buffer))
    ELSE buffer

\* variant of the key that ignores the event type
event_key_mut(event) ==
    <<event.event_data.event_name, Get(event.event_data, "station_id", ""),
      event.timestamp>>
event_key(event) ==
    LET event_name == event.event_data.event_name
        station_id == Get(event.event_data, "station_id", "")
    IN  IF event_name = "Inventory Discrepancy"
        THEN <<event_name, Get(event.event_data, "SKU", ""), event.timestamp>>
        ELSE IF event_name = "Barcode Switching"
        THEN <<event_name, station_id, Get(event.event_data, "customer_id", ""),
               Get(event.event_data, "actual_sku", ""), event.timestamp>>
        ELSE <<event_name, station_id, event.timestamp>>

\* _deduplicate_events: new_events, and processed_events after it
new_events_of(events, processed) ==
    SelectSeq([i \in 1..Len(events) |-> [i |-> i, e |-> events[i]]], LAMBDA x :
        /\ event_key(x.e) \notin processed
        /\ \A j \in 1..(x.i - 1) : event_key(events[j]) # event_key(x.e))

deduplicate_events(events, processed) ==
    [new_events |-> MapSeq(new_events_of(events, processed), LAMBDA x : x.e),
     processed_events |-> processed \cup {event_key(events[i]) : i \in 1..Len(events)}]

\* run_detections: the events it returns and processed_events after it.  An
\* exception inside the try block ends the run with the events collected so
\* far, before the deduplication.
returned_events(events, new_events) == events

run_result(events, dedup) ==
    [events |-> returned_events(events, dedup.new_events),
     processed_events |-> dedup.processed_events, raised |-> FALSE]

deduplicated(events, processed) == run_result(events, deduplicate_events(events, processed))

run_detections(products) ==
    IF system_errors_raises(pos_data \o product_recognition \o queue_data)
    THEN [events |-> detect_scan_avoidance(rfid_data, pos_data)
                     \o detect_barcode_switch(pos_data, rfid_data, products,
                                              product_recognition)
                     \o detect_weight_discrepancy(pos_data, products),
          processed_events |-> processed_events, raised |-> TRUE]
    ELSE deduplicated(
            detect_scan_avoidance(rfid_data, pos_data)
            \o detect_barcode_switch(pos_data, rfid_data, products, product_recognition)
            \o detect_weight_discrepancy(pos_data, products)
            \o detect_system_errors(pos_data \o product_recognition \o queue_data)
            \o detect_long_queue(queue_data)
            \o detect_extended_wait(queue_data)
            \o (IF products # <<>>
                THEN detect_inventory_discrepancy(inventory_data, pos_data, products)
                ELSE <<>>),
            processed_events)

\* all_detections.py __main__: the rules over the files, one after the other;
\* the deduplication with the keys of event_key (the same fields, the
\* timestamp first); the sort by timestamp; the export.  A rule that raises
\* ends the script before anything is written.
all_events_of(rfid, queue, pos, recognition, current_inventory, products) ==
    detect_scan_avoidance(rfid, pos)
    \o detect_barcode_switch(pos, rfid, products, recognition)
    \o detect_weight_discrepancy(pos, products)
    \o detect_system_errors(pos \o recognition \o queue)
    \o detect_long_queue(queue)
    \o detect_extended_wait(queue)
    \o detect_inventory_discrepancy(current_inventory, pos, products)

unique_events_of(all_events) ==
    sort_by_timestamp(MapSeq(new_events_of(all_events, {}), LAMBDA x : x.e))

offline_main(rfid, queue, pos, recognition, current_inventory, products) ==
    /\ ~export.written
    /\ ~system_errors_raises(pos \o recognition \o queue)
    /\ export' = [written |-> TRUE,
                  all_events |-> all_events_of(rfid, queue, pos, recognition,
                                               current_inventory, products),
                  unique_events |-> unique_events_of(
                      all_events_of(rfid, queue, pos, recognition,
                                    current_inventory, products))]
    /\ UNCHANGED <<engine_vars, now, client_vars, event_ids, app_vars, hist_vars,
                   start_vars>>

\* The catalog file, products_list.csv
ProductData ==
    <<[SKU |-> "A1", price |-> 500, weight |-> 480, quantity |-> 3, barcode |-> "BA1"],
      [SKU |-> "A2", price |-> 200, weight |-> 100, quantity |-> 2, barcode |-> "BA2"]>>

inventory_ran(result) == ~result.raised /\ self_product_data # <<>> /\ inventory_data # <<>>

\* add_event: the payload it files, the frame's timestamp and a station_id added
payload_of(frame) ==
    LET given == Get(frame, "event", <<>>)
        stamped == FnPut(given, "timestamp", Get(frame, "timestamp", [t |-> 0, tz |-> "bad"]))
    IN  IF Has(stamped, "station_id") THEN stamped
        ELSE FnPut(stamped, "station_id", "Unknown")

\* add_event, with _trim_buffers
add_event(frame) ==
    LET dataset == Get(frame, "dataset", "")
        payload == payload_of(frame)
    IN  /\ app = "running"
        /\ rfid_data' = trim(IF dataset = "RFID_data"
                             THEN Append(rfid_data, payload) ELSE rfid_data)
        /\ pos_data' = trim(IF dataset = "POS_Transactions"
                            THEN Append(pos_data, payload) ELSE pos_data)
        /\ queue_data' = trim(IF dataset = "Queue_monitor"
                              THEN Append(queue_data, payload) ELSE queue_data)
        /\ product_recognition' = trim(IF dataset = "Product_recognism"
                                       THEN Append(product_recognition, payload)
                                       ELSE product_recognition)
        /\ inventory_data' = IF dataset = "Current_inventory_data"
                             THEN Append(inventory_data, payload) ELSE inventory_data
        /\ pos_seen' = IF dataset = "POS_Transactions"
                       THEN FnPut(pos_seen, payload.data.sku,
                                  Get(pos_seen, payload.data.sku, 0) + 1)
                       ELSE pos_seen
        /\ last' = [op |-> "add_event", frame |-> frame]
        /\ UNCHANGED <<processed_events, events_file, expected_inventory>>
        /\ UNCHANGED <<engine_vars, now, event_ids, export, client_vars, err_seen, run, start_vars>>

\* save_events: the events appended to events.jsonl
after_run(result) ==
    /\ processed_events' = result.processed_events
    /\ events_file' = events_file \o result.events
    /\ expected_inventory' = IF inventory_ran(result)
                             THEN batch_expected_inventory(pos_data, self_product_data)
                             ELSE <<>>
    /\ last' = [op |-> "run_detections", raised |-> result.raised,
                inventory |-> inventory_ran(result),
                file_before |-> Len(events_file)]

\* main: events = app.run_detections(); if events: app.save_events(events)
run_and_save ==
    /\ app = "running"
    /\ after_run(run_detections(self_product_data))
    /\ UNCHANGED <<rfid_data, pos_data, queue_data, product_recognition,
                   inventory_data>>
    /\ UNCHANGED <<engine_vars, now, event_ids, export, client_vars, err_seen, pos_seen, run, start_vars>>

----------------------------------------------------------------------------
(* Start of the three entry points, and the file replay of
   reatime_detection.py *)

\* utils.read_csv: the rows of the file, or [] when the file is missing
\* (FileNotFoundError) or cannot be read (any other exception)
read_csv(file) ==
    CASE file = "ok" -> ProductData
      [] file = "no barcode" ->
           <<[SKU |-> "A1", price |-> 500, weight |-> 480, quantity |-> 3],
             [SKU |-> "A2", price |-> 200, weight |-> 100, quantity |-> 2, barcode |-> ""]>>
      [] file = "shared barcode" ->
           <<[SKU |-> "A1", price |-> 500, weight |-> 480, quantity |-> 3, barcode |-> "B9"],
             [SKU |-> "A2", price |-> 200, weight |-> 100, barcode |-> "B9"]>>
      [] OTHER -> <<>>

\* stream_client.py main: setup_detection_system, then the client.  A catalog
\* path that does not exist ends the process with sys.exit(1); otherwise
\* whatever read_csv returns is loaded and the previous log is removed.
setup_detection_system ==
    /\ client = "setup"
    /\ IF catalog_file = "missing"
       THEN /\ client' = "exited"
            /\ UNCHANGED <<product_data_cache, log>>
       ELSE /\ product_data_cache' = load_product_data(product_data_cache,
                                                       read_csv(catalog_file))
            /\ log' = <<>>
            /\ client' = "streaming"
    /\ UNCHANGED <<pos_skus_cache, rfid_cache, product_recognition_cache,
                   error_aggregation, queue_state, sales_count, rows_processed>>
    /\ UNCHANGED <<now, event_ids, export, detection_count, ret, app_vars, hist_vars,
                   catalog_file, self_product_data, app, replay>>

\* app.py main: app = RealTimeDetectionApp(args.product_data, ...)
construct_app ==
    /\ app = "start"
    /\ self_product_data' = read_csv(catalog_file)
    /\ app' = "running"
    /\ UNCHANGED <<engine_vars, now, event_ids, export, client_vars, app_vars, hist_vars,
                   catalog_file, replay>>

\* reatime_detection.py __main__, set-up: read_csv, load_product_data, the
\* previous log removed
replay_setup ==
    /\ replay = "start"
    /\ product_data_cache' = load_product_data(product_data_cache,
                                               read_csv(catalog_file))
    /\ log' = <<>>
    /\ replay' = "loaded"
    /\ UNCHANGED <<pos_skus_cache, rfid_cache, product_recognition_cache,
                   error_aggregation, queue_state, sales_count, rows_processed>>
    /\ UNCHANGED <<now, event_ids, export, client_vars, app_vars, hist_vars,
                   catalog_file, self_product_data, app>>

\* The loops of __main__ run in this order, one file after the other.
replay_rank(stage) ==
    CASE stage = "loaded" -> 0
      [] stage = "rfid" -> 1
      [] stage = "pos" -> 2
      [] stage = "queue" -> 3
      [] stage = "product_recognition" -> 4
      [] stage = "inventory" -> 5
      [] OTHER -> 6

\* The module globals and the history after a call of process_incoming_row
\* made without the stream client; an exception is not caught by the caller.
direct_call(frame, source_type, st, stage) ==
    /\ pos_skus_cache' = st.pos
    /\ rfid_cache' = st.rfid
    /\ product_recognition_cache' = st.rec
    /\ product_data_cache' = st.cat
    /\ error_aggregation' = st.err
    /\ queue_state' = st.q
    /\ sales_count' = st.sales
    /\ rows_processed' = st.rows
    /\ log' = st.log
    /\ ret' = [kind |-> st.kind, events |-> st.out]
    /\ replay' = IF st.exc THEN "crashed" ELSE stage
    /\ History(frame, source_type, st)
    /\ UNCHANGED <<now, event_ids, export, client, detection_count, app_vars,
                   catalog_file, self_product_data, app>>

\* for row in <file>: result = process_incoming_row(row, <source>)
replay_row(frame, source_type) ==
    /\ replay_rank(source_type) \in 1..5
    /\ replay_rank(replay) <= replay_rank(source_type)
    /\ direct_call(frame, source_type,
                   process_incoming_row(EngineState, frame.event, source_type),
                   source_type)

\* the state after the final cleanup_caches() of __main__
cleanup_after(st) ==
    /\ pos_skus_cache' = st.pos
    /\ rfid_cache' = st.rfid
    /\ product_recognition_cache' = st.rec
    /\ error_aggregation' = st.err
    /\ replay' = "done"
    /\ last' = [op |-> "cleanup_caches", wall |-> now, pos_before |-> pos_skus_cache,
                rfid_before |-> rfid_cache, rec_before |-> product_recognition_cache,
                calls |-> Get(last, "calls", 0)]
    /\ product_data_cache' = st.cat
    /\ queue_state' = st.q
    /\ sales_count' = st.sales
    /\ rows_processed' = st.rows
    /\ log' = st.log
    /\ UNCHANGED <<now, event_ids, export, client_vars, app_vars, err_seen, pos_seen, run,
                   catalog_file, self_product_data, app>>

replay_cleanup ==
    /\ replay_rank(replay) \in 0..5
    /\ cleanup_after(cleanup_caches(EngineState))

----------------------------------------------------------------------------
(* The state after construction: the catalog loaded, the log cleared *)
Init ==
    /\ pos_skus_cache = <<>>
    /\ rfid_cache = <<>>
    /\ product_recognition_cache = <<>>
    /\ product_data_cache = load_product_data(<<>>, ProductData)
    /\ error_aggregation = <<>>
    /\ queue_state = <<>>
    /\ sales_count = <<>>
    /\ rows_processed = 0
    /\ log = <<>>
    /\ now = Now0
    /\ client = "streaming"
    /\ detection_count = 0
    /\ ret = [kind |-> "None", events |-> <<>>]
    /\ rfid_data = <<>>
    /\ pos_data = <<>>
    /\ queue_data = <<>>
    /\ product_recognition = <<>>
    /\ inventory_data = <<>>
    /\ processed_events = {}
    /\ events_file = <<>>
    /\ expected_inventory = <<>>
    /\ self_product_data = ProductData
    /\ app = "running"
    /\ catalog_file = "ok"
    /\ replay = "start"
    /\ last = [op |-> "init"]
    /\ err_seen = <<>>
    /\ pos_seen = <<>>
    /\ run = <<>>
    /\ event_ids = <<>>
    /\ export = [written |-> FALSE]

----------------------------------------------------------------------------
(* Records of the stream *)

Frame(dataset, row) == [dataset |-> dataset, timestamp |-> row.timestamp, event |-> row]

RfidRow(ts, station, sku, location) ==
    [timestamp |-> ts, station_id |-> station, status |-> "Active",
     data |-> [sku |-> sku, location |-> location]]
PosRow(ts, station, status, sku, barcode, price, weight_g) ==
    [timestamp |-> ts, station_id |-> station, status |-> status,
     data |-> [sku |-> sku, barcode |-> barcode, price |-> price,
               weight_g |-> weight_g, customer_id |-> "C001"]]
QueueRow(ts, station, status, customer_count, average_dwell_time) ==
    [timestamp |-> ts, station_id |-> station, status |-> status,
     data |-> [customer_count |-> customer_count,
               average_dwell_time |-> average_dwell_time]]
RecognitionRow(ts, station, status, predicted_product) ==
    [timestamp |-> ts, station_id |-> station, status |-> status,
     data |-> [predicted_product |-> predicted_product]]
InventoryRow(ts, items) == [timestamp |-> ts, data |-> items]
Item(sku, qty) == [key |-> sku, val |-> qty]

\* a record that came without the optional key
Without(row, k) == [x \in DOMAIN row \ {k} |-> row[x]]

RfidFrames ==
    {Frame("RFID_data", RfidRow(TS(0), "SCC1", sku, location)) :
        sku \in {"A1", "A2"}, location \in {"IN_SCAN_AREA", "OUT_SCAN_AREA"}}
    \cup {Frame("RFID_data", Without(RfidRow(TS(0), "SCC1", "A1", "OUT_SCAN_AREA"),
                                     "station_id"))}
PosFrames ==
    {Frame("POS_Transactions", row) : row \in
        {PosRow(TS(0), "SCC1", "Active", "A1", "B1", 200, 500),
         PosRow(TS(0), "SCC1", "Active", "A2", "BA2", 200, 100),
         PosRow(TS(0), "SCC1", "Read Error", "A1", "BA1", 500, 480),
         Without(PosRow(TS(0), "SCC1", "Active", "A2", "BA2", 200, 100), "status")}}
QueueFrames ==
    {Frame("Queue_monitor", row) : row \in
        {QueueRow(TS(0), "SCC1", "Active", 7, 100),
         QueueRow(TS(120), "SCC1", "Active", 7, 500),
         QueueRow(TS(0), "SCC1", "Active", 3, 500),
         Without(QueueRow(TS(0), "SCC1", "Active", 7, 100), "station_id")}}
RecognitionFrames ==
    {Frame("Product_recognism", row) : row \in
        {RecognitionRow(TS(0), "SCC1", "Active", "A1"),
         RecognitionRow(TS(0), "SCC1", "System Crash", "A2")}}
InventoryFrames ==
    {Frame("Current_inventory_data", InventoryRow(TS(0), items)) : items \in
        {<<Item("A1", 3), Item("A2", 2)>>,
         <<Item("A1", 0), Item("A2", 4)>>,
         <<Item("A1", 2), Item("A2", 5), Item("Z9", 2)>>}}
OtherFrames == {Frame("Heartbeat", [timestamp |-> TS(0)])}

(* The streaming engine behind the stream client *)
MaxRows == 3
RfidRecord == \E frame \in RfidFrames : rows_processed < MaxRows /\ process_event(frame)
PosRecord == \E frame \in PosFrames : rows_processed < MaxRows /\ process_event(frame)
QueueRecord == \E frame \in QueueFrames : rows_processed < MaxRows /\ process_event(frame)
RecognitionRecord ==
    \E frame \in RecognitionFrames : rows_processed < MaxRows /\ process_event(frame)
InventoryRecord ==
    \E frame \in InventoryFrames : rows_processed < MaxRows /\ process_event(frame)
OtherRecord == \E frame \in OtherFrames : rows_processed < MaxRows /\ process_event(frame)

Next ==
    \/ RfidRecord
    \/ PosRecord
    \/ QueueRecord
    \/ RecognitionRecord
    \/ InventoryRecord
    \/ OtherRecord

Spec == Init /\ [][Next]_vars

(* One station's queue monitor: runs above the threshold, resets, replays *)
MaxQueueRows == 5
QueueRunFrames ==
    {Frame("Queue_monitor", QueueRow(TS(t), "SCC1", "Active", customer_count, 100)) :
        t \in {0, 60, 120, 180}, customer_count \in {3, 7}}
AboveThreshold ==
    \E frame \in QueueRunFrames :
        /\ frame.event.data.customer_count > 5
        /\ rows_processed < MaxQueueRows
        /\ process_event(frame)
AtOrBelowThreshold ==
    \E frame \in QueueRunFrames :
        /\ frame.event.data.customer_count <= 5
        /\ rows_processed < MaxQueueRows
        /\ process_event(frame)
NextQueue == AboveThreshold \/ AtOrBelowThreshold
SpecQueue == Init /\ [][NextQueue]_vars

(* A long stream at one station: error records of one 10-minute bucket among
   plain records, the periodic cleanup, and the wall clock moving on *)
MaxCleanupRows == 102
MaxErrors == 6
errors_dispatched == IF DOMAIN err_seen = {} THEN 0
                     ELSE err_seen[CHOOSE k \in DOMAIN err_seen : TRUE]
PlainRecord ==
    /\ rows_processed < MaxCleanupRows
    /\ process_event(Frame("Product_recognism",
                           RecognitionRow(TS(Now0), "SCC1", "Active", "A1")))
ErrorRecord ==
    /\ rows_processed < MaxCleanupRows
    /\ errors_dispatched < MaxErrors
    /\ process_event(Frame("Product_recognism",
                           RecognitionRow(TS(Now0), "SCC1", "Read Error", "A1")))
NextCleanup == PlainRecord \/ ErrorRecord \/ Tick
SpecCleanup == Init /\ [][NextCleanup]_vars

(* The batch application: records buffered by add_event, and the detection
   run of the main loop followed by save_events *)
MaxBatchRecords == 3
MaxFileLines == 4
buffered == Len(rfid_data) + Len(pos_data) + Len(queue_data)
            + Len(product_recognition) + Len(inventory_data)
BatchFrames == RfidFrames \cup PosFrames \cup QueueFrames
               \cup RecognitionFrames \cup InventoryFrames
BatchRecord ==
    /\ buffered < MaxBatchRecords
    /\ \E frame \in BatchFrames : add_event(frame)
BatchRun ==
    /\ Len(events_file) < MaxFileLines
    /\ run_and_save
NextBatch == BatchRecord \/ BatchRun
SpecBatch == Init /\ [][NextBatch]_vars

(* The batch application under a long run of sales of one product: more POS
   transactions than the buffers keep, then an inventory snapshot and the
   detection runs over it *)
MaxPosRecords == 1001
TrimPos ==
    /\ inventory_data = <<>>
    /\ Get(pos_seen, "A1", 0) < MaxPosRecords
    /\ add_event(Frame("POS_Transactions",
                       PosRow(TS(0), "SCC1", "Active", "A1", "BA1", 500, 480)))
TrimInventory ==
    /\ inventory_data = <<>>
    /\ add_event(Frame("Current_inventory_data",
                       InventoryRow(TS(0), <<Item("A1", 3)>>)))
TrimRun ==
    /\ inventory_data # <<>>
    /\ Len(events_file) < MaxFileLines
    /\ run_and_save
NextTrim == TrimPos \/ TrimInventory \/ TrimRun
SpecTrim == Init /\ [][NextTrim]_vars

(* The start of one of the three entry points, with the catalog file present,
   missing or unreadable, and the first records it is given *)
InitStartup ==
    /\ pos_skus_cache = <<>>
    /\ rfid_cache = <<>>
    /\ product_recognition_cache = <<>>
    /\ product_data_cache = <<>>
    /\ error_aggregation = <<>>
    /\ queue_state = <<>>
    /\ sales_count = <<>>
    /\ rows_processed = 0
    /\ log = <<>>
    /\ now = Now0
    /\ client = "setup"
    /\ detection_count = 0
    /\ ret = [kind |-> "None", events |-> <<>>]
    /\ rfid_data = <<>>
    /\ pos_data = <<>>
    /\ queue_data = <<>>
    /\ product_recognition = <<>>
    /\ inventory_data = <<>>
    /\ processed_events = {}
    /\ events_file = <<>>
    /\ expected_inventory = <<>>
    /\ self_product_data = <<>>
    /\ app = "start"
    /\ catalog_file \in {"ok", "missing", "unreadable"}
    /\ replay = "start"
    /\ last = [op |-> "init"]
    /\ err_seen = <<>>
    /\ pos_seen = <<>>
    /\ run = <<>>
    /\ event_ids = <<>>
    /\ export = [written |-> FALSE]

MaxStartRecords == 2
StartFrames == RfidFrames \cup PosFrames
StartClient == app = "start" /\ replay = "start" /\ setup_detection_system
StartApp == client = "setup" /\ replay = "start" /\ construct_app
StartReplay == client = "setup" /\ app = "start" /\ replay_setup
ClientRecord ==
    /\ rows_processed < MaxStartRecords
    /\ \E frame \in StartFrames : process_event(frame)
AppRecord ==
    /\ buffered < MaxStartRecords
    /\ \E frame \in StartFrames : add_event(frame)
AppRun ==
    /\ Len(events_file) < MaxFileLines
    /\ run_and_save
ReplayRecord ==
    /\ rows_processed < MaxStartRecords
    /\ \E frame \in StartFrames : replay_row(frame, dataset_map[frame.dataset])
NextStartup ==
    \/ StartClient \/ StartApp \/ StartReplay
    \/ ClientRecord \/ AppRecord \/ AppRun \/ ReplayRecord
SpecStartup == InitStartup /\ [][NextStartup]_vars

(* A stream whose records carry timestamp strings that do not parse, with the
   wall clock moving between them *)
MaxMalformedRows == 3
MalformedFrames ==
    {Frame("RFID_data", RfidRow(BadTS, "SCC1", "A1", "OUT_SCAN_AREA")),
     Frame("RFID_data", RfidRow(TS(0), "SCC1", "A1", "IN_SCAN_AREA")),
     Frame("POS_Transactions", PosRow(BadTS, "SCC1", "Read Error", "A1", "B1", 200, 500)),
     Frame("POS_Transactions", PosRow(BadTS, "SCC1", "Active", "A2", "BA2", 200, 100)),
     Frame("Queue_monitor", QueueRow(BadTS, "SCC1", "Active", 7, 500)),
     Frame("Queue_monitor", QueueRow(BadTS, "SCC1", "System Crash", 3, 100)),
     Frame("Product_recognism", RecognitionRow(BadTS, "SCC1", "System Crash", "A1"))}
MalformedRecord ==
    /\ rows_processed < MaxMalformedRows
    /\ \E frame \in MalformedFrames : process_event(frame)
NextMalformed == MalformedRecord \/ Tick
SpecMalformed == Init /\ [][NextMalformed]_vars

(* The file replay of reatime_detection.py: the set-up, the files one after
   the other, the wall clock moving, and the final cleanup_caches() *)
MaxReplayRows == 3
ReplayFrames ==
    {Frame("RFID_data", RfidRow(TS(0), "SCC1", "A1", "IN_SCAN_AREA")),
     Frame("RFID_data", RfidRow(TS(Now0), "SCC1", "A2", "OUT_SCAN_AREA")),
     Frame("RFID_data", RfidRow(BadTS, "SCC1", "A1", "OUT_SCAN_AREA")),
     Frame("POS_Transactions", PosRow(TS(Now0), "SCC1", "Active", "A1", "BA1", 500, 480)),
     Frame("POS_Transactions", PosRow(TS(0), "SCC1", "Active", "A2", "BA2", 200, 100)),
     Frame("Product_recognism", RecognitionRow(TS(Now0), "SCC1", "Active", "A1")),
     Frame("Product_recognism", RecognitionRow(BadTS, "SCC2", "Active", "A2"))}
ReplayRow ==
    /\ rows_processed < MaxReplayRows
    /\ \E frame \in ReplayFrames : replay_row(frame, dataset_map[frame.dataset])
NextReplay == replay_setup \/ ReplayRow \/ replay_cleanup \/ Tick
SpecReplay == Init /\ [][NextReplay]_vars

(* The file replay with one cache at the size cap: the RFID, POS or
   Recognition file has put about MAX_CACHE_SIZE entries with distinct keys
   into its cache since the start, the entries lie inside the window except
   two of the newest; then the inventory snapshots (the call whose index is a
   multiple of CLEANUP_INTERVAL among them) and the final cleanup_caches() *)
CapRows0 == MAX_CACHE_SIZE + CLEANUP_INTERVAL - 2
MaxCapRows == 10100
CapSizes == {MAX_CACHE_SIZE - 1, MAX_CACHE_SIZE, MAX_CACHE_SIZE + 1,
             MAX_CACHE_SIZE + 2, CapRows0}
CapPatterns == {1, 2}
\* the stored timestamp of the i-th of n entries
cap_stamp(i, n, pattern) ==
    IF pattern = 1 THEN Now0 + ((i % 3) * 60)
    ELSE IF i \in {n - 1, n - 3} THEN 0
    ELSE Now0 - ((i % 2) * 60)
cap_rfid(n, pattern) ==
    [i \in 1..n |-> [key |-> <<TS(cap_stamp(i, n, pattern)), ToString(i)>>,
                     val |-> [sku |-> "A1",
                              timestamp |-> cap_stamp(i, n, pattern)]]]
cap_rec(n, pattern) ==
    [i \in 1..n |-> [key |-> <<TS(cap_stamp(i, n, pattern)), ToString(i)>>,
                     val |-> [predicted_sku |-> "A1",
                              timestamp |-> cap_stamp(i, n, pattern)]]]
cap_pos(n, pattern) ==
    [i \in 1..n |-> [key |-> ToString(i),
                     val |-> [customer_id |-> "C001",
                              timestamp |-> cap_stamp(i, n, pattern)]]]
cap_sales(n) == [sku \in {ToString(i) : i \in 1..n} |-> 1]

InitCap ==
    /\ \E which \in {"pos", "rfid", "product_recognition"}, n \in CapSizes,
          pattern \in CapPatterns :
           /\ pos_skus_cache = (IF which = "pos" THEN cap_pos(n, pattern) ELSE <<>>)
           /\ rfid_cache = (IF which = "rfid" THEN cap_rfid(n, pattern) ELSE <<>>)
           /\ product_recognition_cache =
                  (IF which = "product_recognition" THEN cap_rec(n, pattern) ELSE <<>>)
           /\ sales_count = (IF which = "pos" THEN cap_sales(n) ELSE <<>>)
           /\ pos_seen = (IF which = "pos" THEN cap_sales(n) ELSE <<>>)
    /\ product_data_cache = load_product_data(<<>>, ProductData)
    /\ error_aggregation = <<>>
    /\ queue_state = <<>>
    /\ rows_processed = CapRows0
    /\ log = <<>>
    /\ now = Now0
    /\ client = "setup"
    /\ detection_count = 0
    /\ ret = [kind |-> "None", events |-> <<>>]
    /\ rfid_data = <<>>
    /\ pos_data = <<>>
    /\ queue_data = <<>>
    /\ product_recognition = <<>>
    /\ inventory_data = <<>>
    /\ processed_events = {}
    /\ events_file = <<>>
    /\ expected_inventory = <<>>
    /\ self_product_data = <<>>
    /\ app = "start"
    /\ catalog_file = "ok"
    /\ replay = "product_recognition"
    /\ last = [op |-> "init"]
    /\ err_seen = <<>>
    /\ run = <<>>
    /\ event_ids = <<>>
    /\ export = [written |-> FALSE]

CapFrames ==
    {Frame("Current_inventory_data", InventoryRow(TS(0), <<Item("A1", 3)>>)),
     Frame("Current_inventory_data", InventoryRow(TS(0), <<Item("A1", 0), Item("A2", 4)>>))}
CapRow ==
    /\ rows_processed < MaxCapRows
    /\ \E frame \in CapFrames : replay_row(frame, "inventory")
NextCap == CapRow \/ replay_cleanup
SpecCap == InitCap /\ [][NextCap]_vars

(* A caller of process_incoming_row over two cleanup intervals: RFID readings
   whose timestamp is older than the cache window, and rows of a source type
   the dispatcher does not know.  Neither emits an event. *)
MaxCadenceRows == 200
CadenceCalls ==
    {[source |-> "rfid",
      frame |-> Frame("RFID_data", RfidRow(TS(0), "SCC1", "A1", "IN_SCAN_AREA"))],
     [source |-> "heartbeat",
      frame |-> Frame("Heartbeat", [timestamp |-> TS(0)])]}
CadenceRow ==
    \E c \in CadenceCalls :
        /\ rows_processed < MaxCadenceRows
        /\ direct_call(c.frame, c.source,
                       process_incoming_row(EngineState, c.frame.event, c.source),
                       replay)
NextCadence == CadenceRow
SpecCadence == Init /\ [][NextCadence]_vars

(* The stream client at one checkout: RFID readings and recognition
   predictions under the key of the POS records or under another key, a
   reading without a SKU, and POS records whose SKU or barcode is or is not in
   the catalog. *)
MaxSwitchRows == 3
SwitchRfidFrames ==
    {Frame("RFID_data", RfidRow(TS(t), "SCC1", sku, "IN_SCAN_AREA")) :
        t \in {0}, sku \in {"A1", "BA2", None}}
    \cup {Frame("RFID_data", RfidRow(TS(60), "SCC1", "A1", "IN_SCAN_AREA"))}
SwitchRecognitionFrames ==
    {Frame("Product_recognism", RecognitionRow(TS(0), "SCC1", "Active", predicted)) :
        predicted \in {"A1", "A2", "Z9"}}
SwitchPosFrames ==
    {Frame("POS_Transactions", PosRow(TS(0), "SCC1", "Active", sku, barcode, price, 500)) :
        sku \in {"A1", "Z9"}, barcode \in {"BA2", "B1", "A1"}, price \in {200, 500}}
    \cup {Frame("POS_Transactions",
                Without(PosRow(TS(0), "SCC1", "Active", "A1", "B1", 200, 500), "status"))}
SwitchRfid ==
    \E frame \in SwitchRfidFrames : rows_processed < MaxSwitchRows /\ process_event(frame)
SwitchRecognition ==
    \E frame \in SwitchRecognitionFrames :
        rows_processed < MaxSwitchRows /\ process_event(frame)
SwitchPos ==
    \E frame \in SwitchPosFrames : rows_processed < MaxSwitchRows /\ process_event(frame)
NextSwitch == SwitchRfid \/ SwitchRecognition \/ SwitchPos
SpecSwitch == Init /\ [][NextSwitch]_vars

(* The stream client at one checkout scale: POS records of a catalog SKU and
   of a SKU the catalog does not know, with weights at, just inside and just
   outside the tolerance; one of them without the optional status. *)
MaxWeightRows == 3
WeightPosFrames ==
    {Frame("POS_Transactions", PosRow(TS(0), "SCC1", "Active", "A1", "BA1", 500, weight_g)) :
        weight_g \in {474, 475, 480, 485, 486}}
    \cup {Frame("POS_Transactions",
                PosRow(TS(0), "SCC1", "Active", "Z9", "Z9", 500, weight_g)) :
            weight_g \in {0, 5, 6}}
    \cup {Frame("POS_Transactions",
                Without(PosRow(TS(0), "SCC1", "Active", "A1", "BA1", 500, 486), "status"))}
WeightPos ==
    \E frame \in WeightPosFrames : rows_processed < MaxWeightRows /\ process_event(frame)
NextWeight == WeightPos
SpecWeight == Init /\ [][NextWeight]_vars

(* The stream client at one queue monitor: dwell times at and around the
   threshold and 1.5 times the threshold, customer counts at and around 5,
   and a record that came without its station_id. *)
MaxWaitRows == 2
WaitQueueFrames ==
    {Frame("Queue_monitor",
           QueueRow(TS(0), "SCC1", "Active", customer_count, average_dwell_time)) :
        customer_count \in {3, 5, 6}, average_dwell_time \in {300, 301, 450, 451, 500}}
    \cup {Frame("Queue_monitor",
                Without(QueueRow(TS(0), "SCC1", "Active", 3, 500), "station_id"))}
WaitQueue ==
    \E frame \in WaitQueueFrames : rows_processed < MaxWaitRows /\ process_event(frame)
NextWait == WaitQueue
SpecWait == Init /\ [][NextWait]_vars

(* The file replay with sales: POS records of two SKUs, old and recent, one of
   them without its barcode; then recognition predictions and inventory
   snapshots; the wall clock moving and the final cleanup_caches() *)
MaxSalesRows == 4
SalesFrames ==
    {Frame("POS_Transactions", PosRow(TS(0), "SCC1", "Active", "A1", "BA1", 500, 480)),
     Frame("POS_Transactions", PosRow(TS(Now0), "SCC1", "Active", "A2", "BA2", 200, 100)),
     Frame("POS_Transactions",
           [timestamp |-> TS(0), station_id |-> "SCC1", status |-> "Active",
            data |-> [sku |-> "A1", price |-> 500, weight_g |-> 480]]),
     Frame("Product_recognism", RecognitionRow(TS(0), "SCC1", "Active", "A1")),
     Frame("Current_inventory_data",
           InventoryRow(TS(0), <<Item("A1", 3), Item("A2", 0)>>))}
SalesRow ==
    /\ rows_processed < MaxSalesRows
    /\ \E frame \in SalesFrames : replay_row(frame, dataset_map[frame.dataset])
NextSales == replay_setup \/ SalesRow \/ replay_cleanup \/ Tick
SpecSales == Init /\ [][NextSales]_vars

(* A run of the stream client or of the file replay that finds the log of a
   previous run on disk: the set-up, then records that emit one event, two
   events or none, the wall clock moving, and the final cleanup_caches() of
   the replay. *)
MaxLogRows == 3
PreviousLogs ==
    {<<>>,
     <<[timestamp |-> TS(0),
        event_data |-> [event_name |-> "Scanner Avoidance", station_id |-> "SCC9",
                        customer_id |-> None, product_sku |-> "A2"]]>>}
InitLog ==
    /\ pos_skus_cache = <<>>
    /\ rfid_cache = <<>>
    /\ product_recognition_cache = <<>>
    /\ product_data_cache = <<>>
    /\ error_aggregation = <<>>
    /\ queue_state = <<>>
    /\ sales_count = <<>>
    /\ rows_processed = 0
    /\ log \in PreviousLogs
    /\ now = Now0
    /\ client = "setup"
    /\ detection_count = 0
    /\ ret = [kind |-> "None", events |-> <<>>]
    /\ rfid_data = <<>>
    /\ pos_data = <<>>
    /\ queue_data = <<>>
    /\ product_recognition = <<>>
    /\ inventory_data = <<>>
    /\ processed_events = {}
    /\ events_file = <<>>
    /\ expected_inventory = <<>>
    /\ self_product_data = <<>>
    /\ app = "start"
    /\ catalog_file = "ok"
    /\ replay = "start"
    /\ last = [op |-> "init"]
    /\ err_seen = <<>>
    /\ pos_seen = <<>>
    /\ run = <<>>
    /\ event_ids = <<>>
    /\ export = [written |-> FALSE]
LogFrames ==
    {Frame("RFID_data", RfidRow(TS(0), "SCC1", "A1", "OUT_SCAN_AREA")),
     Frame("POS_Transactions", PosRow(TS(0), "SCC1", "Read Error", "A1", "BA1", 500, 490)),
     Frame("POS_Transactions", PosRow(TS(0), "SCC1", "Active", "A2", "BA2", 200, 100)),
     Frame("Product_recognism", RecognitionRow(TS(0), "SCC1", "System Crash", "A1"))}
LogClientRecord ==
    /\ rows_processed < MaxLogRows
    /\ \E frame \in LogFrames : process_event(frame)
LogReplayRecord ==
    /\ rows_processed < MaxLogRows
    /\ \E frame \in LogFrames : replay_row(frame, dataset_map[frame.dataset])
NextLog ==
    \/ StartClient \/ StartReplay
    \/ LogClientRecord \/ LogReplayRecord
    \/ replay_cleanup \/ Tick
SpecLog == InitLog /\ [][NextLog]_vars

(* The stream client with the event ids followed: each logged event draws a
   uuid4; the draws are all different, some agree on their first 8 or their
   first 5 characters. *)
MaxIdRows == 2
MaxLinesPerCall == 2
UuidHeads ==
    {<<"3", "f", "2", "a", "1", "b", "7", "c">>,
     <<"3", "f", "2", "a", "1", "d", "9", "9">>,
     <<"a", "0", "4", "e", "5", "5", "1", "0">>}
UuidDraws == {[head |-> head, rest |-> rest] : head \in UuidHeads, rest \in {1, 2}}
IdFrames ==
    {Frame("RFID_data", RfidRow(TS(0), "SCC1", "A1", "OUT_SCAN_AREA")),
     Frame("POS_Transactions", PosRow(TS(0), "SCC1", "Read Error", "A1", "BA1", 500, 490)),
     Frame("POS_Transactions", PosRow(TS(0), "SCC1", "Active", "A2", "BA2", 200, 100))}
IdRecord ==
    /\ rows_processed < MaxIdRows
    /\ \E frame \in IdFrames, draws \in [1..MaxLinesPerCall -> UuidDraws] :
           process_event_ids(frame, draws)
NextIds == IdRecord
SpecIds == Init /\ [][NextIds]_vars

(* The offline script over small files: readings, transactions and snapshots
   that share their timestamp and station, so that several events of one
   rule fall on one key. *)
MaxOfflineRows == 2
OfflineRfid ==
    {<<>>,
     <<RfidRow(TS(0), "SCC1", "A1", "OUT_SCAN_AREA")>>,
     <<RfidRow(TS(0), "SCC1", "A1", "OUT_SCAN_AREA"),
       RfidRow(TS(0), "SCC1", "A2", "OUT_SCAN_AREA")>>,
     <<RfidRow(TS(60), "SCC1", "A2", "OUT_SCAN_AREA"),
       RfidRow(TS(0), "SCC1", "A2", "OUT_SCAN_AREA")>>}
OfflinePosRows ==
    {PosRow(TS(0), "SCC1", "Active", "A1", "B1", 200, 480),
     PosRow(TS(0), "SCC1", "Active", "A2", "B1", 500, 100),
     PosRow(TS(0), "SCC1", "Read Error", "A1", "BA1", 500, 490),
     PosRow(TS(0), "SCC1", "Active", "A2", "BA2", 200, 120)}
OfflinePos ==
    {<<>>} \cup {<<a>> : a \in OfflinePosRows}
           \cup {<<a, b>> : a \in OfflinePosRows, b \in OfflinePosRows}
OfflineQueue ==
    {<<>>,
     <<QueueRow(TS(0), "SCC1", "Active", 3, 500), QueueRow(TS(0), "SCC1", "Active", 7, 400)>>}
OfflineInventory ==
    {<<>>, <<InventoryRow(TS(0), <<Item("A1", 9), Item("A2", 9)>>)>>}
OfflineRun ==
    \E rfid \in OfflineRfid, pos \in OfflinePos, queue \in OfflineQueue,
       current_inventory \in OfflineInventory :
        /\ Len(pos) <= MaxOfflineRows
        /\ offline_main(rfid, queue, pos, <<>>, current_inventory, ProductData)
NextOffline == OfflineRun
SpecOffline == Init /\ [][NextOffline]_vars

(* The stream client receiving records that come back on a key: the same
   timestamp and station with another SKU or prediction, the same SKU sold to
   another customer, a timestamp that does not parse; the wall clock moving. *)
MaxOverwriteRows == 3
OverwriteFrames ==
    {Frame("RFID_data", RfidRow(TS(0), "SCC1", sku, "IN_SCAN_AREA")) : sku \in {"A1", "A2"}}
    \cup {Frame("RFID_data", RfidRow(BadTS, "SCC2", "A1", "IN_SCAN_AREA"))}
    \cup {Frame("Product_recognism", RecognitionRow(TS(0), "SCC1", "Active", predicted)) :
             predicted \in {"A1", "A2"}}
    \cup {Frame("POS_Transactions", row) : row \in
             {PosRow(TS(0), "SCC1", "Active", "A1", "BA1", 500, 480),
              [PosRow(TS(60), "SCC2", "Active", "A1", "BA1", 500, 480)
                   EXCEPT !.data.customer_id = "C002"],
              PosRow(BadTS, "SCC1", "Active", "A2", "BA2", 200, 100)}}
OverwriteRecord ==
    /\ rows_processed < MaxOverwriteRows
    /\ \E frame \in OverwriteFrames : process_event(frame)
NextOverwrite == OverwriteRecord \/ Tick
SpecOverwrite == Init /\ [][NextOverwrite]_vars

(* The stream client receiving records that trigger several rules at once: a
   POS record with a switched barcode, a wrong weight and an error status; the
   same without its weight or without its barcode; a queue above the
   threshold for 120 s with a long dwell time and an error status. *)
MaxOrderRows == 4
OrderFrames ==
    {Frame("POS_Transactions", row) : row \in
        {PosRow(TS(0), "SCC1", "Read Error", "A1", "B1", 200, 500),
         PosRow(TS(0), "SCC1", "Active", "A1", "B1", 200, 500),
         [timestamp |-> TS(0), station_id |-> "SCC1", status |-> "Read Error",
          data |-> [sku |-> "A2", barcode |-> "B1", price |-> 500, customer_id |-> "C001"]],
         [timestamp |-> TS(0), station_id |-> "SCC1", status |-> "Read Error",
          data |-> [sku |-> "A2", price |-> 500, weight_g |-> 500]]}}
    \cup {Frame("Queue_monitor", row) : row \in
             {QueueRow(TS(0), "SCC1", "Active", 7, 100),
              QueueRow(TS(120), "SCC1", "System Crash", 7, 500)}}
OrderRecord ==
    /\ rows_processed < MaxOrderRows
    /\ \E frame \in OrderFrames : process_event(frame)
NextOrder == OrderRecord
SpecOrder == Init /\ [][NextOrder]_vars

(* The stream client receiving records of every dataset that report an error
   status, the RFID and inventory records included, next to records that
   trigger the rules of their own dataset. *)
MaxSourceRows == 3
SourceFrames ==
    {Frame("RFID_data", [RfidRow(TS(0), "SCC1", "A1", location)
                            EXCEPT !.status = "Read Error"]) :
        location \in {"IN_SCAN_AREA", "OUT_SCAN_AREA"}}
    \cup {Frame("Current_inventory_data",
                [timestamp |-> TS(0), status |-> "System Crash", data |-> items]) :
             items \in {<<Item("A1", 3), Item("A2", 2)>>, <<Item("A1", 0), Item("A2", 4)>>}}
    \cup {Frame("Product_recognism", RecognitionRow(TS(0), "SCC1", status, "A1")) :
             status \in {"Active", "System Crash"}}
    \cup {Frame("POS_Transactions", PosRow(TS(0), "SCC1", "Read Error", "A1", "B1", 200, 500)),
          Frame("Queue_monitor", QueueRow(TS(0), "SCC1", "Active", 7, 500)),
          Frame("Queue_monitor", QueueRow(TS(120), "SCC1", "Read Error", 7, 500))}
    \cup OtherFrames
SourceRecord ==
    /\ rows_processed < MaxSourceRows
    /\ \E frame \in SourceFrames : process_event(frame)
NextSources == SourceRecord
SpecSources == Init /\ [][NextSources]_vars

(* The stream client receiving error records whose timestamps lie on both
   sides of the ten-minute and the hour boundaries, one of them from a second
   station and one with a timestamp that does not parse. *)
MaxBucketRows == 3
BucketTimes == {0, 599, 600, 659, 3599, 3600}
BucketFrames ==
    {Frame("Product_recognism", RecognitionRow(TS(t), "SCC1", "System Crash", "A1")) :
        t \in BucketTimes}
    \cup {Frame("Product_recognism", RecognitionRow(TS(599), "SCC2", "System Crash", "A1")),
          Frame("Product_recognism",
                RecognitionRow([t |-> 0, tz |-> "bad"], "SCC1", "Read Error", "A1"))}
BucketRecord ==
    /\ rows_processed < MaxBucketRows
    /\ \E frame \in BucketFrames : process_event(frame)
NextBucket == BucketRecord
SpecBucket == Init /\ [][NextBucket]_vars

(* The file replay over three catalogs: every product with its own barcode;
   products without a barcode or with an empty one; two products sharing one
   barcode.  The SKU identifies the row and no barcode is a SKU. *)
MaxCatalogRows == 2
InitCatalog ==
    /\ pos_skus_cache = <<>>
    /\ rfid_cache = <<>>
    /\ product_recognition_cache = <<>>
    /\ product_data_cache = <<>>
    /\ error_aggregation = <<>>
    /\ queue_state = <<>>
    /\ sales_count = <<>>
    /\ rows_processed = 0
    /\ log = <<>>
    /\ now = Now0
    /\ client = "setup"
    /\ detection_count = 0
    /\ ret = [kind |-> "None", events |-> <<>>]
    /\ rfid_data = <<>>
    /\ pos_data = <<>>
    /\ queue_data = <<>>
    /\ product_recognition = <<>>
    /\ inventory_data = <<>>
    /\ processed_events = {}
    /\ events_file = <<>>
    /\ expected_inventory = <<>>
    /\ self_product_data = <<>>
    /\ app = "start"
    /\ catalog_file \in {"ok", "no barcode", "shared barcode"}
    /\ replay = "start"
    /\ last = [op |-> "init"]
    /\ err_seen = <<>>
    /\ pos_seen = <<>>
    /\ run = <<>>
    /\ event_ids = <<>>
    /\ export = [written |-> FALSE]
CatalogRow ==
    /\ replay # "start"
    /\ rows_processed < MaxCatalogRows
    /\ \E frame \in SalesFrames : replay_row(frame, dataset_map[frame.dataset])
NextCatalog == replay_setup \/ CatalogRow \/ replay_cleanup \/ Tick
SpecCatalog == InitCatalog /\ [][NextCatalog]_vars

(* A caller of process_incoming_row three calls before a cleanup, one of the
   caches as large as the calls since the last cleanup can have made it, all
   its entries inside the window; every further record brings a key the cache
   does not hold, through the next cleanup and up to the one after it. *)
GrowthRows0 == 2 * MAX_CACHE_SIZE + CLEANUP_INTERVAL - 3
MaxGrowthRows == 20201
InitGrowth ==
    /\ \E which \in {"pos", "rfid", "product_recognition"} :
           LET n == MAX_CACHE_SIZE + CLEANUP_INTERVAL - 2
           IN  /\ pos_skus_cache = (IF which = "pos" THEN cap_pos(n, 1) ELSE <<>>)
               /\ rfid_cache = (IF which = "rfid" THEN cap_rfid(n, 1) ELSE <<>>)
               /\ product_recognition_cache =
                      (IF which = "product_recognition" THEN cap_rec(n, 1) ELSE <<>>)
               /\ sales_count = (IF which = "pos" THEN cap_sales(n) ELSE <<>>)
               /\ pos_seen = (IF which = "pos" THEN cap_sales(n) ELSE <<>>)
    /\ product_data_cache = load_product_data(<<>>, ProductData)
    /\ error_aggregation = <<>>
    /\ queue_state = <<>>
    /\ rows_processed = GrowthRows0
    /\ log = <<>>
    /\ now = Now0
    /\ client = "setup"
    /\ detection_count = 0
    /\ ret = [kind |-> "None", events |-> <<>>]
    /\ rfid_data = <<>>
    /\ pos_data = <<>>
    /\ queue_data = <<>>
    /\ product_recognition = <<>>
    /\ inventory_data = <<>>
    /\ processed_events = {}
    /\ events_file = <<>>
    /\ expected_inventory = <<>>
    /\ self_product_data = <<>>
    /\ app = "start"
    /\ catalog_file = "ok"
    /\ replay = "loaded"
    /\ last = [op |-> "init"]
    /\ err_seen = <<>>
    /\ run = <<>>
    /\ event_ids = <<>>
    /\ export = [written |-> FALSE]
\* the record of the growing cache's source that the call after rows brings
growth_frame(source_type, rows) ==
    CASE source_type = "pos" ->
           Frame("POS_Transactions",
                 PosRow(TS(Now0), "SCC1", "Active", ToString(rows + 1),
                        ToString(rows + 1), 0, 0))
      [] source_type = "rfid" ->
           Frame("RFID_data", RfidRow(TS(Now0), ToString(rows + 1), "A1", "IN_SCAN_AREA"))
      [] OTHER ->
           Frame("Product_recognism",
                 RecognitionRow(TS(Now0), ToString(rows + 1), "Active", "A1"))
growing ==
    IF pos_skus_cache # <<>> THEN "pos"
    ELSE IF rfid_cache # <<>> THEN "rfid" ELSE "product_recognition"
GrowthRow ==
    /\ rows_processed < MaxGrowthRows
    /\ direct_call(growth_frame(growing, rows_processed), growing,
                   process_incoming_row(EngineState,
                                        growth_frame(growing, rows_processed).event,
                                        growing),
                   replay)
NextGrowth == GrowthRow
SpecGrowth == InitGrowth /\ [][NextGrowth]_vars

(* One stream feeding both engines: every frame goes to the stream client,
   which dispatches it to the streaming engine, and to the batch app, which
   files it in its buffer.  POS records come first, then RFID readings; a POS
   record that comes after a reading is the last record of the run. *)
MaxEquivRows == 4
EquivPosFrames ==
    {Frame("POS_Transactions", PosRow(TS(0), "SCC1", "Active", "A1", "BA1", 500, 480)),
     Frame("POS_Transactions", PosRow(TS(60), "SCC2", "Active", "A2", "BA2", 200, 100))}
EquivRfidFrames ==
    {Frame("RFID_data", RfidRow(TS(60), "SCC1", sku, location)) :
        sku \in {"A1", "A2"}, location \in {"IN_SCAN_AREA", "OUT_SCAN_AREA"}}
    \cup {Frame("RFID_data", Without(RfidRow(TS(0), "SCC1", "A2", "OUT_SCAN_AREA"),
                                     "station_id"))}
both_engines(frame) ==
    /\ client = "streaming"
    /\ after_call(frame, dataset_map[frame.dataset],
                  process_incoming_row(EngineState, frame.event,
                                       dataset_map[frame.dataset]))
    /\ rfid_data' = trim(IF frame.dataset = "RFID_data"
                         THEN Append(rfid_data, payload_of(frame)) ELSE rfid_data)
    /\ pos_data' = trim(IF frame.dataset = "POS_Transactions"
                        THEN Append(pos_data, payload_of(frame)) ELSE pos_data)
    /\ queue_data' = trim(IF frame.dataset = "Queue_monitor"
                          THEN Append(queue_data, payload_of(frame)) ELSE queue_data)
    /\ UNCHANGED <<product_recognition, inventory_data, processed_events,
                   events_file, expected_inventory>>
    /\ UNCHANGED <<now, event_ids, export, start_vars>>
late_pos == last.op = "process_incoming_row" /\ last.source = "pos" /\ rfid_data # <<>>
EquivPos ==
    /\ rows_processed < MaxEquivRows
    /\ ~late_pos
    /\ \E frame \in EquivPosFrames : both_engines(frame)
EquivRfid ==
    /\ rows_processed < MaxEquivRows
    /\ ~late_pos
    /\ \E frame \in EquivRfidFrames : both_engines(frame)
NextEquiv == EquivPos \/ EquivRfid
SpecEquiv == Init /\ [][NextEquiv]_vars

(* The same stream with the queue monitors of two stations: counts above and
   below the threshold, timestamps with and without the zone suffix Z, every
   station's records in non-decreasing order of their timestamps. *)
MaxLongQueueRows == 3
LongQueueFrames ==
    {Frame("Queue_monitor", QueueRow([t |-> t, tz |-> tz], station, "Active", count, 100)) :
        t \in {0, 120}, tz \in {"", "Z"}, station \in {"SCC1", "SCC2"}, count \in {7, 3}}
in_station_order(frame) ==
    \A i \in 1..Len(queue_data) :
        queue_data[i].station_id = frame.event.station_id =>
            timestamp_le(queue_data[i].timestamp, frame.event.timestamp)
LongQueueRecord ==
    /\ rows_processed < MaxLongQueueRows
    /\ \E frame \in LongQueueFrames : in_station_order(frame) /\ both_engines(frame)
NextLongQueue == LongQueueRecord
SpecLongQueue == Init /\ [][NextLongQueue]_vars

(* The file replay before its final cleanup_caches(): readings, sales, queue
   records and predictions, old and recent, some with an error status, so that
   every global of the engine holds entries when the cleanup runs. *)
MaxFrameRows == 4
FrameFrames ==
    {Frame("RFID_data", RfidRow(TS(0), "SCC1", "A1", "OUT_SCAN_AREA")),
     Frame("RFID_data", RfidRow(TS(Now0), "SCC1", "A2", "IN_SCAN_AREA")),
     Frame("POS_Transactions", PosRow(TS(0), "SCC1", "Read Error", "A1", "BA1", 500, 480)),
     Frame("POS_Transactions", PosRow(TS(Now0), "SCC1", "Read Error", "A2", "BA2", 200, 100)),
     Frame("Queue_monitor", QueueRow(TS(0), "SCC1", "Active", 7, 100)),
     Frame("Queue_monitor", QueueRow(TS(120), "SCC1", "Active", 7, 100)),
     Frame("Product_recognism", RecognitionRow(TS(0), "SCC1", "Active", "A1")),
     Frame("Product_recognism", RecognitionRow(TS(Now0), "SCC2", "System Crash", "A2"))}
FrameRow ==
    /\ rows_processed < MaxFrameRows
    /\ \E frame \in FrameFrames : replay_row(frame, dataset_map[frame.dataset])
NextFrame == replay_setup \/ FrameRow \/ replay_cleanup \/ Tick
SpecFrame == Init /\ [][NextFrame]_vars

(* The batch app with one of its buffers one record short of buffer_size.  The
   k-th record of a dataset carries the timestamp k, so that a buffer shows
   which records it holds; frames of the four buffered datasets, inventory
   snapshots and frames of a dataset the app does not know. *)
MaxBufferRecords == 3
BufferedDatasets == {"RFID_data", "POS_Transactions", "Queue_monitor", "Product_recognism"}
buffer_frame(dataset, k) ==
    CASE dataset = "RFID_data" ->
           Frame(dataset, RfidRow(TS(k), "SCC1", "A1", "IN_SCAN_AREA"))
      [] dataset = "POS_Transactions" ->
           Frame(dataset, PosRow(TS(k), "SCC1", "Active", "A1", "BA1", 500, 480))
      [] dataset = "Queue_monitor" ->
           Frame(dataset, QueueRow(TS(k), "SCC1", "Active", 3, 100))
      [] dataset = "Product_recognism" ->
           Frame(dataset, RecognitionRow(TS(k), "SCC1", "Active", "A1"))
      [] dataset = "Current_inventory_data" ->
           Frame(dataset, InventoryRow(TS(k), <<Item("A1", 3)>>))
      [] OTHER -> Frame(dataset, [timestamp |-> TS(k)])
filled_buffer(dataset, filled) ==
    IF dataset = filled
    THEN [k \in 1..(buffer_size - 1) |-> payload_of(buffer_frame(dataset, k))]
    ELSE <<>>
InitBuffers ==
    /\ \E dataset \in BufferedDatasets :
           /\ rfid_data = filled_buffer("RFID_data", dataset)
           /\ pos_data = filled_buffer("POS_Transactions", dataset)
           /\ queue_data = filled_buffer("Queue_monitor", dataset)
           /\ product_recognition = filled_buffer("Product_recognism", dataset)
           /\ pos_seen = (IF dataset = "POS_Transactions"
                          THEN [sku \in {"A1"} |-> buffer_size - 1] ELSE <<>>)
    /\ pos_skus_cache = <<>>
    /\ rfid_cache = <<>>
    /\ product_recognition_cache = <<>>
    /\ product_data_cache = load_product_data(<<>>, ProductData)
    /\ error_aggregation = <<>>
    /\ queue_state = <<>>
    /\ sales_count = <<>>
    /\ rows_processed = 0
    /\ log = <<>>
    /\ now = Now0
    /\ client = "streaming"
    /\ detection_count = 0
    /\ ret = [kind |-> "None", events |-> <<>>]
    /\ inventory_data = <<>>
    /\ processed_events = {}
    /\ events_file = <<>>
    /\ expected_inventory = <<>>
    /\ self_product_data = ProductData
    /\ app = "running"
    /\ catalog_file = "ok"
    /\ replay = "start"
    /\ last = [op |-> "init"]
    /\ err_seen = <<>>
    /\ run = <<>>
    /\ event_ids = <<>>
    /\ export = [written |-> FALSE]\* how many frames of the dataset the app has received
received(dataset) ==
    LET buffer == CASE dataset = "RFID_data" -> rfid_data
                    [] dataset = "POS_Transactions" -> pos_data
                    [] dataset = "Queue_monitor" -> queue_data
                    [] dataset = "Product_recognism" -> product_recognition
                    [] dataset = "Current_inventory_data" -> inventory_data
                    [] OTHER -> <<>>
    IN  IF buffer = <<>> THEN 0 ELSE buffer[Len(buffer)].timestamp.t
BufferRecord ==
    /\ received("RFID_data") + received("POS_Transactions") + received("Queue_monitor")
         + received("Product_recognism") + received("Current_inventory_data")
           < buffer_size - 1 + MaxBufferRecords
    /\ \E dataset \in BufferedDatasets \cup {"Current_inventory_data", "Heartbeat"} :
           add_event(buffer_frame(dataset, received(dataset) + 1))
NextBuffers == BufferRecord
SpecBuffers == InitBuffers /\ [][NextBuffers]_vars

----------------------------------------------------------------------------
(* Properties of the streaming engine *)

\* the lines the last call of process_incoming_row appended to the log
logged_by_last == SubSeq(log, last.log_before + 1, Len(log))
named(events, event_name) ==
    SelectSeq(events, LAMBDA e : e.event_data.event_name = event_name)
last_is(source_type) == last.op = "process_incoming_row" /\ last.source = source_type

\* C4: a record whose processing raises is confined to that record: after it
\* the stream client is still streaming and takes the next record.
C4_FailureIsolated == (last.op = "process_incoming_row" /\ last.raised) => client = "streaming"

\* C8: an RFID record logs and returns exactly one Scanner Avoidance event
\* when its location is OUT_SCAN_AREA and its SKU is no key of the POS cache
\* at the evaluation, and none otherwise.
C8_ScannerAvoidance ==
    last_is("rfid") =>
        LET row == last.row
            absent == /\ row.data.location = "OUT_SCAN_AREA"
                      /\ row.data.sku \notin DictKeys(pos_skus_cache)
            flagged == named(logged_by_last, "Scanner Avoidance")
        IN  /\ Len(flagged) = (IF absent THEN 1 ELSE 0)
            /\ logged_by_last = flagged
            /\ ret.events = flagged
            /\ ret.kind = (IF absent THEN "event" ELSE "None")
            /\ \A i \in 1..Len(flagged) :
                   /\ flagged[i].event_data.product_sku = row.data.sku
                   /\ flagged[i].timestamp = row.timestamp

\* an OUT_SCAN_AREA reading evaluated against a POS cache that holds another
\* SKU but not its own, and one evaluated against a cache that holds its own
C8_Witness ==
    /\ last_is("rfid")
    /\ last.row.data.location = "OUT_SCAN_AREA"
    /\ pos_skus_cache # <<>>
    /\ last.row.data.sku \notin DictKeys(pos_skus_cache)
    /\ Len(logged_by_last) = 1

\* C9: an inventory snapshot emits, for each of its SKUs in order, one
\* Inventory Discrepancy event iff abs(expected - actual) > 1, where expected
\* is the catalog quantity (0 if absent) minus the POS records seen so far
\* for the SKU; Type is Shrinkage iff actual < expected, else Overage; the
\* call returns the list of these events.
claimed_expected(sku) ==
    catalog_get(product_data_cache, sku, "quantity", 0) - Get(pos_seen, sku, 0)
claimed_breaches(items) ==
    SelectSeq(items, LAMBDA item : Abs(claimed_expected(item.key) - item.val) > 1)
C9_InventoryDiscrepancy ==
    last_is("inventory") =>
        LET breaches == claimed_breaches(last.row.data)
        IN  /\ Len(logged_by_last) = Len(breaches)
            /\ ret.events = logged_by_last
            /\ ret.kind = (IF breaches = <<>> THEN "None" ELSE "list")
            /\ \A i \in 1..Len(logged_by_last) :
                   LET e == logged_by_last[i].event_data
                   IN  /\ e.event_name = "Inventory Discrepancy"
                       /\ e.SKU = breaches[i].key
                       /\ e.Actual_Inventory = breaches[i].val
                       /\ e.Expected_Inventory = claimed_expected(e.SKU)
                       /\ e.Type = (IF breaches[i].val < claimed_expected(e.SKU)
                                    THEN "Shrinkage" ELSE "Overage")

\* a snapshot taken after sales, with a Shrinkage and an Overage in one call
C9_Witness ==
    /\ last_is("inventory")
    /\ pos_seen # <<>>
    /\ \E i, j \in 1..Len(logged_by_last) :
           /\ logged_by_last[i].event_data.Type = "Shrinkage"
           /\ logged_by_last[i].event_data.Units_Sold > 0
           /\ logged_by_last[j].event_data.Type = "Overage"

\* C5: a run of consecutive above-threshold records of a station with
\* non-decreasing timestamps has emitted exactly one Long Queue Length event
\* once one of its records lies 120 s or more after its first, and none
\* before.
C5_OneEventPerRun ==
    \A station_id \in DOMAIN run :
        (run[station_id].active /\ run[station_id].ordered) =>
            run[station_id].emitted = (IF run[station_id].reached THEN 1 ELSE 0)

\* C6: a run that started after a reset and has stayed above the threshold
\* for 120 s or more has produced a Long Queue Length event, whatever was
\* flagged before.
C6_FlaggedAgainAfterReset ==
    \A station_id \in DOMAIN run :
        (run[station_id].active /\ run[station_id].after_reset /\ run[station_id].reached)
            => run[station_id].emitted >= 1

\* C7: the mutable state stays bounded however long the stream: for a limit
\* FlaggedLimit, no station's set of flagged run starts ever holds more
\* entries.
FlaggedLimit == 1
C7_BoundedMemory ==
    \A station_id \in DOMAIN queue_state :
        Cardinality(queue_state[station_id].flagged) <= FlaggedLimit

recurring_logged(station_id, interval_key) ==
    Len(SelectSeq(named(log, "Recurring System Failures"), LAMBDA e :
            /\ e.event_data.station_id = station_id
            /\ e.timestamp = isoformat(interval_key)))

\* C1: once exactly recurring_threshold (3) error records of a station and
\* 10-minute bucket have been dispatched, the log holds exactly one
\* Recurring System Failures event for that station and bucket.
C1_RecurringAtThreshold ==
    \A k \in DOMAIN err_seen :
        err_seen[k] = 3 => recurring_logged(k[1], k[2]) = 1

\* C2: the log never holds more than one Recurring System Failures event for
\* a station and bucket, however many error records were dispatched.
C2_RecurringAtMostOnce ==
    \A k \in DOMAIN err_seen : recurring_logged(k[1], k[2]) <= 1

\* C11: a record without a station_id field is processed as a record of
\* station "Unknown": its dispatch ends normally and every event it logs that
\* names a station names "Unknown".
C11_DefaultStation ==
    (last.op = "process_incoming_row" /\ ~Has(last.row, "station_id")) =>
        /\ ~last.raised
        /\ \A i \in 1..Len(logged_by_last) :
               Has(logged_by_last[i].event_data, "station_id") =>
                   logged_by_last[i].event_data.station_id = "Unknown"

\* C12: a POS, Queue or Recognition record logs exactly one System Error
\* event when its status is "Read Error" or "System Crash" and none
\* otherwise; a record whose status is absent or has another value ends its
\* dispatch normally.  (Records that carry their station_id.)
C12_SystemError ==
    (/\ last.op = "process_incoming_row"
     /\ last.source \in {"pos", "queue", "product_recognition"}
     /\ Has(last.row, "station_id")) =>
        LET erroneous == /\ Has(last.row, "status")
                         /\ last.row.status \in {"Read Error", "System Crash"}
        IN  /\ Len(named(logged_by_last, "System Error")) = (IF erroneous THEN 1 ELSE 0)
            /\ ~erroneous => ~last.raised

\* C13: when the catalog file is missing or unreadable, no entry point
\* processes a record: no call of process_incoming_row, no record buffered
\* and no detection run.
C13_CatalogFailureFatal ==
    catalog_file # "ok" =>
        /\ rows_processed = 0
        /\ buffered = 0
        /\ last.op \notin {"process_incoming_row", "add_event", "run_detections"}

\* C14: a record whose timestamp string does not parse (and that carries all
\* its fields) never makes process_incoming_row raise; the cache entry it
\* writes is stamped with the wall clock; and its System Error, Weight
\* Discrepancies and Long Wait Time events are emitted, one each, with the
\* record's own timestamp string.
unparseable(row) == row.timestamp.tz \in {"bad", "Unknown"}
emitted_once(event_name, applies) ==
    LET found == named(logged_by_last, event_name)
    IN  /\ Len(found) = (IF applies THEN 1 ELSE 0)
        /\ \A i \in 1..Len(found) : found[i].timestamp = last.row.timestamp
C14_MalformedTimestamp ==
    (last.op = "process_incoming_row" /\ unparseable(last.row)) =>
        LET row == last.row
            key == <<row.timestamp, row.station_id>>
        IN  /\ ~last.raised
            /\ last.source = "rfid" =>
                   /\ DictHas(rfid_cache, key)
                   /\ DictGet(rfid_cache, key).timestamp = last.wall
            /\ last.source = "product_recognition" =>
                   /\ DictHas(product_recognition_cache, key)
                   /\ DictGet(product_recognition_cache, key).timestamp = last.wall
            /\ last.source = "pos" =>
                   /\ DictHas(pos_skus_cache, row.data.sku)
                   /\ DictGet(pos_skus_cache, row.data.sku).timestamp = last.wall
                   /\ emitted_once("Weight Discrepancies",
                          Abs(row.data.weight_g
                              - catalog_get(product_data_cache, row.data.sku,
                                            "weight", 0)) > 5)
            /\ last.source = "queue" =>
                   emitted_once("Long Wait Time", row.data.average_dwell_time > 300)
            /\ last.source \in {"pos", "queue", "product_recognition"} =>
                   emitted_once("System Error",
                                row.status \in {"Read Error", "System Crash"})

\* a POS record with an unparseable timestamp that emitted both a Weight
\* Discrepancies and a System Error event
C14_Witness ==
    /\ last.op = "process_incoming_row" /\ last.source = "pos"
    /\ unparseable(last.row)
    /\ named(logged_by_last, "Weight Discrepancies") # <<>>
    /\ named(logged_by_last, "System Error") # <<>>
    /\ last.wall > Now0

\* C15: immediately after cleanup_caches, no entry of the POS, RFID and
\* Recognition caches is stamped more than CACHE_WINDOW_MINUTES before the
\* wall clock of the cleanup, and every entry stamped within the window is
\* still there (the caches being under the size cap).
within_window(entry, wall) == wall - entry.val.timestamp <= CACHE_WINDOW_MINUTES * 60
age_limited(before, after, wall) ==
    /\ \A i \in 1..Len(after) : within_window(after[i], wall)
    /\ \A i \in 1..Len(before) :
           within_window(before[i], wall) => \E j \in 1..Len(after) : after[j] = before[i]
C15_AgeLimit ==
    last.op = "cleanup_caches" =>
        /\ age_limited(last.pos_before, pos_skus_cache, last.wall)
        /\ age_limited(last.rfid_before, rfid_cache, last.wall)
        /\ age_limited(last.rec_before, product_recognition_cache, last.wall)

\* a cleanup of an RFID cache that held an entry older than the window and an
\* entry exactly as old as the window
C15_Witness ==
    /\ last.op = "cleanup_caches"
    /\ \E i, j \in 1..Len(last.rfid_before) :
           /\ ~within_window(last.rfid_before[i], last.wall)
           /\ last.wall - last.rfid_before[j].val.timestamp = CACHE_WINDOW_MINUTES * 60
    /\ Len(rfid_cache) < Len(last.rfid_before)
    /\ rfid_cache # <<>>

\* C16: immediately after cleanup_caches each of the POS, RFID and
\* Recognition caches has at most MAX_CACHE_SIZE entries; of the entries
\* inside the window exactly the excess over MAX_CACHE_SIZE is evicted, and
\* every evicted entry is stamped no later than every retained one.
stamped(d, t) == SelectSeq(d, LAMBDA e : e.val.timestamp = t)
\* the entries of d stamped t that are no longer in after: the retained ones
\* are the last of them, unchanged
evicted_at(d, after, t) == Len(stamped(d, t)) - Len(stamped(after, t))
retained_at(d, after, t) ==
    stamped(after, t) = SubSeq(stamped(d, t), evicted_at(d, after, t) + 1,
                               Len(stamped(d, t)))
size_capped(before, after, wall) ==
    LET live == SelectSeq(before, LAMBDA e : within_window(e, wall))
        excess == IF Len(live) > MAX_CACHE_SIZE THEN Len(live) - MAX_CACHE_SIZE ELSE 0
    IN  /\ Len(after) = Len(live) - excess
        /\ stamps(after) \subseteq stamps(live)
        /\ \A t \in stamps(live) :
               /\ evicted_at(live, after, t) >= 0
               /\ retained_at(live, after, t)
        /\ \A old \in stamps(live) : \A kept \in stamps(after) :
               evicted_at(live, after, old) > 0 => old <= kept
C16_SizeLimit ==
    /\ (\/ last.op = "cleanup_caches"
        \/ (last.op = "process_incoming_row" /\ last.cleaned /\ last.source = "inventory"))
           => /\ Len(pos_skus_cache) <= MAX_CACHE_SIZE
              /\ Len(rfid_cache) <= MAX_CACHE_SIZE
              /\ Len(product_recognition_cache) <= MAX_CACHE_SIZE
    /\ last.op = "cleanup_caches" =>
           /\ size_capped(last.pos_before, pos_skus_cache, last.wall)
           /\ size_capped(last.rfid_before, rfid_cache, last.wall)
           /\ size_capped(last.rec_before, product_recognition_cache, last.wall)

\* a cleanup that found the RFID cache over the cap and evicted the excess,
\* the first entry of the dict not among the evicted
C16_Witness ==
    /\ last.op = "cleanup_caches"
    /\ Len(last.rfid_before) > MAX_CACHE_SIZE + 1
    /\ Len(rfid_cache) = MAX_CACHE_SIZE
    /\ rfid_cache[1] = last.rfid_before[1]

\* C17: cleanup_caches runs during exactly the calls of process_incoming_row
\* whose 1-based index is a multiple of CLEANUP_INTERVAL; every call counts,
\* whatever its source type; and the cleanup comes before the record's cache
\* update, so the reading of a cleanup call is still in the RFID cache after
\* the call even when it is older than the window, while no other expired
\* reading is.
reading_key(row) == <<row.timestamp, Get(row, "station_id", "Unknown")>>
C17_CleanupCadence ==
    last.op = "process_incoming_row" =>
        /\ rows_processed = last.calls
        /\ last.cleaned <=> (last.calls % CLEANUP_INTERVAL = 0)
        /\ (last.cleaned /\ last.source = "rfid") =>
               /\ DictHas(rfid_cache, reading_key(last.row))
               /\ \A i \in 1..Len(rfid_cache) :
                      \/ rfid_cache[i].key = reading_key(last.row)
                      \/ within_window(rfid_cache[i], last.wall)
        /\ (last.cleaned /\ last.source # "rfid") =>
               \A i \in 1..Len(rfid_cache) : within_window(rfid_cache[i], last.wall)
C17_Witness ==
    /\ last.op = "process_incoming_row"
    /\ last.calls = 2 * CLEANUP_INTERVAL
    /\ last.cleaned
    /\ last.source = "rfid"
    /\ \E i \in 1..Len(rfid_cache) : ~within_window(rfid_cache[i], last.wall)

\* The correlation data of the POS record of the last call: the prediction and
\* the RFID SKU cached under its timestamp+station key (a POS call that does
\* no cleanup leaves both caches as they were at the evaluation).
predicted_for(row) ==
    IF DictHas(product_recognition_cache, reading_key(row))
    THEN DictGet(product_recognition_cache, reading_key(row)).predicted_sku ELSE None
rfid_sku_for(row) ==
    IF DictHas(rfid_cache, reading_key(row))
    THEN DictGet(rfid_cache, reading_key(row)).sku ELSE None
resolved_barcode_price(row) ==
    catalog_get(product_data_cache, row.data.barcode, "price", row.data.price)
switching_logged == named(logged_by_last, "Barcode Switching")

\* C18: with a prediction and an RFID SKU under the key of a POS record, one
\* Barcode Switching event is emitted iff the barcode's resolved price is
\* strictly less than the predicted product's catalog price and the RFID SKU
\* differs from the scanned barcode; the event names the RFID SKU, the
\* fallback is not evaluated; and no POS record emits more than one Barcode
\* Switching event.
C18_SwitchWithCorrelation ==
    (last_is("pos") /\ ~last.cleaned) =>
        /\ Len(switching_logged) <= 1
        /\ (predicted_for(last.row) # None /\ rfid_sku_for(last.row) # None) =>
              LET flagged ==
                      /\ resolved_barcode_price(last.row)
                            < catalog_get(product_data_cache, predicted_for(last.row),
                                          "price", 0)
                      /\ rfid_sku_for(last.row) # last.row.data.barcode
              IN  /\ Len(switching_logged) = (IF flagged THEN 1 ELSE 0)
                  /\ \A i \in 1..Len(switching_logged) :
                         switching_logged[i].event_data.actual_sku = rfid_sku_for(last.row)

\* a method 1 event that names an RFID SKU other than the SKU of the POS record
C18_Witness ==
    /\ last_is("pos")
    /\ predicted_for(last.row) # None
    /\ rfid_sku_for(last.row) \notin {None, last.row.data.sku}
    /\ Len(switching_logged) = 1
    /\ switching_logged[1].event_data.actual_sku = rfid_sku_for(last.row)

\* C19: without a prediction or without an RFID SKU under the key of a POS
\* record, one Barcode Switching event is emitted iff the POS SKU differs
\* from the scanned barcode and the SKU's resolved price (catalog price, 0 if
\* unknown) differs from the barcode's resolved price.
C19_SwitchFallback ==
    (/\ last_is("pos")
     /\ ~last.cleaned
     /\ (predicted_for(last.row) = None \/ rfid_sku_for(last.row) = None)) =>
        LET row == last.row
            flagged == /\ row.data.sku # row.data.barcode
                       /\ catalog_get(product_data_cache, row.data.sku, "price", 0)
                              # resolved_barcode_price(row)
        IN  Len(switching_logged) = (IF flagged THEN 1 ELSE 0)

\* C20: a POS record with no RFID and no recognition entry under its key,
\* whose barcode is not in the catalog, whose SKU has a positive catalog price
\* other than the stated price, whose weight is more than 5 off the catalog
\* weight and whose status is no error, makes process_incoming_row return
\* exactly a Barcode Switching event followed by a Weight Discrepancies event.
C20_FallbackAndWeight ==
    LET row == last.row
        key == reading_key(row)
        sku_price == catalog_get(product_data_cache, row.data.sku, "price", 0)
    IN  (/\ last_is("pos")
         /\ ~DictHas(rfid_cache, key)
         /\ ~DictHas(product_recognition_cache, key)
         /\ row.data.barcode \notin DOMAIN product_data_cache
         /\ sku_price > 0
         /\ sku_price # row.data.price
         /\ Abs(row.data.weight_g
                  - catalog_get(product_data_cache, row.data.sku, "weight", 0)) > 5
         /\ ~(Has(row, "status") /\ row.status \in {"Read Error", "System Crash"})) =>
            /\ ~last.raised
            /\ ret.kind = "list"
            /\ Len(ret.events) = 2
            /\ ret.events[1].event_data.event_name = "Barcode Switching"
            /\ ret.events[1].event_data.actual_sku = row.data.sku
            /\ ret.events[2].event_data.event_name = "Weight Discrepancies"

\* C21: a POS record emits one Weight Discrepancies event iff its weight is
\* more than 5 away from the catalog weight of its SKU, 0 for a SKU the
\* catalog does not know; a difference of exactly 5 emits none; and a record
\* (carrying its status) whose SKU is not in the catalog does not raise.
claimed_weight(sku) == catalog_get(product_data_cache, sku, "weight", 0)
weight_logged == named(logged_by_last, "Weight Discrepancies")
C21_WeightDiscrepancy ==
    last_is("pos") =>
        LET row == last.row
            off == Abs(row.data.weight_g - claimed_weight(row.data.sku))
        IN  /\ Len(weight_logged) = (IF off > 5 THEN 1 ELSE 0)
            /\ \A i \in 1..Len(weight_logged) :
                   /\ weight_logged[i].event_data.product_sku = row.data.sku
                   /\ weight_logged[i].event_data.expected_weight
                          = claimed_weight(row.data.sku)
            /\ (row.data.sku \notin DOMAIN product_data_cache /\ Has(row, "status"))
                   => ~last.raised

\* a SKU the catalog does not know, 6 g on the scale: flagged against 0
C21_Witness ==
    /\ last_is("pos")
    /\ last.row.data.sku \notin DOMAIN product_data_cache
    /\ last.row.data.weight_g = 6
    /\ Len(weight_logged) = 1
    /\ ~last.raised

\* C22: a queue record emits one Long Wait Time event iff its
\* average_dwell_time is above 300; the priority is HIGH iff the dwell time is
\* above 450 and the customer count above 5, MEDIUM in every other flagged
\* case.
wait_logged == named(logged_by_last, "Long Wait Time")
C22_ExtendedWait ==
    last_is("queue") =>
        LET row == last.row
            dwell == row.data.average_dwell_time
        IN  /\ Len(wait_logged) = (IF dwell > 300 THEN 1 ELSE 0)
            /\ \A i \in 1..Len(wait_logged) :
                   wait_logged[i].event_data.priority
                       = (IF dwell > 450 /\ row.data.customer_count > 5
                          THEN "HIGH" ELSE "MEDIUM")

\* C23: in every state sales_count[sku] is the number of POS records of that
\* SKU dispatched so far, whatever happened since (a cleanup, another
\* dispatch, an inventory snapshot); a POS record is counted before its rules
\* run, so also when one of them raises.
C23_SalesCount ==
    \A sku \in DOMAIN sales_count \cup DOMAIN pos_seen :
        Get(sales_count, sku, 0) = Get(pos_seen, sku, 0)

\* the second sale of a SKU, counted although its barcode rule raised
C23_Witness ==
    /\ last_is("pos")
    /\ last.raised
    /\ Get(pos_seen, last.row.data.sku, 0) = 2
    /\ Get(sales_count, last.row.data.sku, 0) = 2

\* C24: the anomaly log only grows: every step leaves the earlier lines as an
\* unchanged prefix of the log, a call of process_incoming_row appends one
\* line for each event it returns, and the one step that clears the log is
\* the set-up, taken before the first record is processed.
appended == SubSeq(log', Len(log) + 1, Len(log'))
C24_AppendOnly ==
    [][\/ /\ Len(log') >= Len(log)
          /\ SubSeq(log', 1, Len(log)) = log
          /\ (last'.op = "process_incoming_row" /\ last' # last) =>
                 \A i \in 1..Len(ret'.events) :
                     Len(SelectSeq(appended, LAMBDA e : e = ret'.events[i])) = 1
       \/ /\ log' = <<>>
          /\ rows_processed = 0
          /\ last.op = "init"
          /\ client' = "streaming" \/ replay' = "loaded"]_vars

\* a call that appended two lines behind two earlier ones
C24_Witness ==
    /\ last.op = "process_incoming_row"
    /\ last.log_before >= 2
    /\ Len(logged_by_last) = 2
    /\ Len(ret.events) = 1

\* C25: no two events emitted during one run carry the same event_id.
C25_UniqueEventIds ==
    \A i, j \in 1..Len(event_ids) : event_ids[i].id = event_ids[j].id => i = j

\* C27: each of the POS-by-SKU, RFID and recognition caches holds one entry
\* per key; the record of a call puts its value under its key, with the
\* record's parsed time (the wall clock when the string does not parse),
\* whether or not the key was there; every other key of that cache keeps its
\* entry.  (Calls that do no cleanup.)
claimed_time(row, wall) == IF unparseable(row) THEN wall ELSE row.timestamp.t
overwritten(before, after, k, v) ==
    /\ \A i, j \in 1..Len(after) : after[i].key = after[j].key => i = j
    /\ DictKeys(after) = DictKeys(before) \cup {k}
    /\ \E i \in 1..Len(after) : after[i] = [key |-> k, val |-> v]
    /\ \A i \in 1..Len(before) :
           before[i].key # k => \E j \in 1..Len(after) : after[j] = before[i]
rule_rank(event) ==
    CASE event.event_data.event_name \in {"Barcode Switching", "Long Queue Length"} -> 1
      [] event.event_data.event_name \in {"Weight Discrepancies", "Long Wait Time"} -> 2
      [] event.event_data.event_name = "System Error" -> 3
      [] OTHER -> 4
in_rule_order(events) ==
    \A i, j \in 1..Len(events) : i < j => rule_rank(events[i]) < rule_rank(events[j])
C28_DispatchOrder ==
    (last.op = "process_incoming_row" /\ last.source \in {"pos", "queue"}) =>
        /\ in_rule_order(logged_by_last)
        /\ in_rule_order(ret.events)
        /\ ~last.raised =>
               ret.events = SelectSeq(logged_by_last, LAMBDA e : rule_rank(e) < 4)
        /\ (last.source = "pos" /\ Has(last.row.data, "sku")) =>
               /\ Get(sales_count, last.row.data.sku, 0)
                     = Get(pos_seen, last.row.data.sku, 0)
               /\ HasAll(last.row.data, {"barcode", "price"}) =>
                      DictHas(pos_skus_cache, last.row.data.sku)

\* a POS record that returned its three events
C28_Witness ==
    /\ last_is("pos")
    /\ Len(ret.events) = 3
    /\ ret.events[1].event_data.event_name = "Barcode Switching"
    /\ ret.events[2].event_data.event_name = "Weight Discrepancies"
    /\ ret.events[3].event_data.event_name = "System Error"
    /\ SubSeq(logged_by_last, 1, 3) = ret.events

\* C29: every event a call of process_incoming_row emits belongs to the rules
\* of the record's source type: Scanner Avoidance to RFID records, Barcode
\* Switching and Weight Discrepancies to POS records, Long Queue Length and
\* Long Wait Time to queue records, Inventory Discrepancy to inventory
\* records, System Error and Recurring System Failures to POS, queue and
\* recognition records; so an RFID or inventory record with an error status
\* emits no System Error and a recognition record nothing else.
rules_of(source_type) ==
    CASE source_type = "rfid" -> {"Scanner Avoidance"}
      [] source_type = "pos" ->
           {"Barcode Switching", "Weight Discrepancies",
            "System Error", "Recurring System Failures"}
      [] source_type = "queue" ->
           {"Long Queue Length", "Long Wait Time",
            "System Error", "Recurring System Failures"}
      [] source_type = "product_recognition" ->
           {"System Error", "Recurring System Failures"}
      [] source_type = "inventory" -> {"Inventory Discrepancy"}
      [] OTHER -> {}
emitted_names(events) == {events[i].event_data.event_name : i \in 1..Len(events)}
C29_RulesBySource ==
    last.op = "process_incoming_row" =>
        /\ emitted_names(logged_by_last) \subseteq rules_of(last.source)
        /\ emitted_names(ret.events) \subseteq rules_of(last.source)

\* an RFID record with an error status that emitted its Scanner Avoidance
\* and nothing else, after two records had reported errors at the station
C29_Witness ==
    /\ last_is("rfid")
    /\ last.row.status = "Read Error"
    /\ emitted_names(logged_by_last) = {"Scanner Avoidance"}
    /\ error_count(error_aggregation, "SCC1", 0) = 2

\* C30: an error record with parsed time t adds one to exactly one counter,
\* that of its station and of the bucket b with b <= t < b + 10 minutes, b a
\* whole minute and minute(b) a multiple of 10; so two error records of a
\* station share a counter exactly when their times floor to the same bucket.
is_bucket_of(b, t) ==
    /\ b <= t /\ t < b + 10 * 60
    /\ b % 60 = 0
    /\ ((b \div 60) % 60) % 10 = 0
C30_ErrorBucket ==
    [][(/\ last'.op = "process_incoming_row" /\ last' # last
        /\ last'.source = "product_recognition"
        /\ last'.row.status \in {"Read Error", "System Crash"}) =>
          LET t == parse_timestamp(last'.row.timestamp, last'.wall)
          IN  /\ \A s \in DOMAIN error_aggregation' :
                    \A b \in DOMAIN error_aggregation'[s] :
                        error_count(error_aggregation', s, b)
                            = error_count(error_aggregation, s, b)
                              + (IF s = last'.row.station_id /\ is_bucket_of(b, t)
                                 THEN 1 ELSE 0)
              /\ \E b \in DOMAIN error_aggregation'[last'.row.station_id] :
                    is_bucket_of(b, t)
      ]_vars

\* a station with two errors in the bucket of 0:00, counted from the
\* timestamps 0:00 and 9:59, and one in the bucket of 0:10
C30_Witness ==
    /\ last_is("product_recognition")
    /\ last.row.timestamp.t = 599 /\ last.row.timestamp.tz = ""
    /\ "SCC1" \in DOMAIN error_aggregation
    /\ DOMAIN error_aggregation["SCC1"] = {0, 600}
    /\ error_aggregation["SCC1"][0] = 2
    /\ error_aggregation["SCC1"][600] = 1
    /\ Len(log) = 3 /\ log[1].timestamp = TS(0) /\ log[2].timestamp = TS(600)

\* C31: once load_product_data has run, the catalog is in every state what
\* the file gave: under each SKU the row's price, weight and quantity, under
\* each non-empty barcode the same entry as under the SKU of a row that
\* carries it; no call of process_incoming_row or cleanup_caches changes it.
row_entry(p) ==
    [price |-> Get(p, "price", 0), weight |-> Get(p, "weight", 0),
     quantity |-> Get(p, "quantity", 0)]
rows_of_key(rows, k) ==
    {i \in 1..Len(rows) : rows[i].SKU = k \/ Get(rows[i], "barcode", "") = k}
catalog_keys(rows) ==
    {rows[i].SKU : i \in 1..Len(rows)}
    \cup ({Get(rows[i], "barcode", "") : i \in 1..Len(rows)} \ {""})
loaded_catalog(rows) ==
    [k \in catalog_keys(rows) |->
        row_entry(rows[CHOOSE i \in rows_of_key(rows, k) :
                          \A j \in rows_of_key(rows, k) : j <= i])]
C31_CatalogReadOnly ==
    replay # "start" =>
        LET rows == read_csv(catalog_file)
        IN  /\ product_data_cache = loaded_catalog(rows)
            /\ \A i \in 1..Len(rows) :
                   Get(rows[i], "barcode", "") # "" =>
                       \E j \in 1..Len(rows) :
                           /\ Get(rows[j], "barcode", "") = rows[i].barcode
                           /\ product_data_cache[rows[i].barcode]
                                 = product_data_cache[rows[j].SKU]

\* the catalog with a shared barcode after a counted sale and the final cleanup
C31_Witness ==
    /\ last.op = "cleanup_caches"
    /\ catalog_file = "shared barcode"
    /\ DOMAIN product_data_cache = {"A1", "A2", "B9"}
    /\ Get(sales_count, "A1", 0) > 0
    /\ rows_processed = MaxCatalogRows

\* C32: the events a call of process_incoming_row returns are the events it
\* appended to the log, so the anomalies the stream client has counted are as
\* many as the lines of the log.
C32_ReturnedMatchLogged ==
    last.op = "process_incoming_row" =>
        /\ ret.events = logged_by_last
        /\ detection_count = Len(log)

----------------------------------------------------------------------------
(* Properties of the offline script *)

\* C26: the exported list holds no two events with the same dedup key, the key
\* being (event_name, SKU, timestamp) for Inventory Discrepancy, (event_name,
\* station_id, customer_id, actual_sku, timestamp) for Barcode Switching and
\* (event_name, station_id, timestamp) for the others; the event exported for
\* a key is the first one detected with it, and every key detected is
\* exported.
claimed_key(event) ==
    LET d == event.event_data
    IN  CASE d.event_name = "Inventory Discrepancy" ->
               <<d.event_name, d.SKU, event.timestamp>>
          [] d.event_name = "Barcode Switching" ->
               <<d.event_name, d.station_id, d.customer_id, d.actual_sku, event.timestamp>>
          [] OTHER -> <<d.event_name, d.station_id, event.timestamp>>
C26_OfflineDedup ==
    export.written =>
        LET all == export.all_events
            out == export.unique_events
        IN  /\ \A i, j \in 1..Len(out) :
                   claimed_key(out[i]) = claimed_key(out[j]) => i = j
            /\ \A i \in 1..Len(out) : \E k \in 1..Len(all) :
                   /\ all[k] = out[i]
                   /\ \A m \in 1..(k - 1) : claimed_key(all[m]) # claimed_key(out[i])
            /\ \A k \in 1..Len(all) : \E i \in 1..Len(out) :
                   claimed_key(out[i]) = claimed_key(all[k])

\* an export that dropped a later event of a key and kept two Barcode
\* Switching events of one station and timestamp that name different SKUs
C26_Witness ==
    /\ export.written
    /\ Len(export.unique_events) < Len(export.all_events)
    /\ \E i, j \in 1..Len(export.unique_events) :
           LET a == export.unique_events[i]
               b == export.unique_events[j]
           IN  /\ a.event_data.event_name = "Barcode Switching"
               /\ b.event_data.event_name = "Barcode Switching"
               /\ a.timestamp = b.timestamp
               /\ a.event_data.station_id = b.event_data.station_id
               /\ a.event_data.actual_sku # b.event_data.actual_sku

----------------------------------------------------------------------------
(* Properties of the batch application *)

\* C3: events.jsonl never holds two lines with the same dedup key: a run over
\* buffers that still hold the record of an already saved event hands
\* save_events no second copy of that event.
C3_NoDuplicateLine ==
    \A i, j \in 1..Len(events_file) :
        event_key(events_file[i]) = event_key(events_file[j]) => i = j

\* C10: after every detection run that evaluated the inventory, the expected
\* inventory of a SKU is its catalog quantity minus the number of POS
\* transactions of that SKU received since the process started.
C10_CumulativeSales ==
    (last.op = "run_detections" /\ last.inventory) =>
        \A i \in 1..Len(ProductData) :
            Get(expected_inventory, ProductData[i].SKU, None)
                = ProductData[i].quantity - Get(pos_seen, ProductData[i].SKU, 0)

\* C33: the deduplication drops a detected event only when an event it keeps
\* has the same event_data; anomalies that differ in SKU or customer are all
\* kept.
C33_DedupKeepsDistinct ==
    export.written =>
        \A i \in 1..Len(export.all_events) :
            \E j \in 1..Len(export.unique_events) :
                export.unique_events[j].event_data = export.all_events[i].event_data

\* C34: in every state of the streaming engine each of the POS, RFID and
\* recognition caches holds at most MAX_CACHE_SIZE + CLEANUP_INTERVAL entries.
C34_CacheBound ==
    /\ Len(pos_skus_cache) <= MAX_CACHE_SIZE + CLEANUP_INTERVAL
    /\ Len(rfid_cache) <= MAX_CACHE_SIZE + CLEANUP_INTERVAL
    /\ Len(product_recognition_cache) <= MAX_CACHE_SIZE + CLEANUP_INTERVAL

\* the RFID cache full to the bound after the last call before a cleanup call
C34_Witness ==
    /\ last_is("rfid")
    /\ rows_processed % CLEANUP_INTERVAL = CLEANUP_INTERVAL - 1
    /\ Len(rfid_cache) = MAX_CACHE_SIZE + CLEANUP_INTERVAL

\* C35: when every POS record was dispatched before every RFID reading, the
\* Scanner Avoidance events of the streaming engine are the events the batch
\* detect_scan_avoidance gives on the same readings and POS records; a POS
\* record that arrives after the readings changes the batch result only, the
\* streaming engine having flagged the readings against the POS records before
\* them; and the batch result does not depend on the order of the POS records.
streamed_scan_avoidance ==
    SelectSeq(log, LAMBDA e : e.event_data.event_name = "Scanner Avoidance")
reversed(s) == [i \in 1..Len(s) |-> s[Len(s) + 1 - i]]
C35_ScanAvoidanceEquivalence ==
    /\ ~late_pos =>
           streamed_scan_avoidance = detect_scan_avoidance(rfid_data, pos_data)
    /\ late_pos =>
           streamed_scan_avoidance
               = detect_scan_avoidance(rfid_data, SubSeq(pos_data, 1, Len(pos_data) - 1))
    /\ detect_scan_avoidance(rfid_data, pos_data)
           = detect_scan_avoidance(rfid_data, reversed(pos_data))

\* after the POS record of A1, a reading of A1 and one of A2 that left the
\* scan area: both engines flag the reading of A2 only
C35_Witness ==
    /\ ~late_pos
    /\ Len(pos_data) = 1 /\ pos_data[1].data.sku = "A1"
    /\ Len(rfid_data) = 2
    /\ rfid_data[1].data = [sku |-> "A1", location |-> "OUT_SCAN_AREA"]
    /\ rfid_data[2].data = [sku |-> "A2", location |-> "OUT_SCAN_AREA"]
    /\ Len(streamed_scan_avoidance) = 1
    /\ streamed_scan_avoidance[1].event_data.product_sku = "A2"
    /\ last_is("rfid")

\* C36: for queue records that arrive in non-decreasing timestamp order per
\* station, the Long Queue Length events the streaming engine has emitted
\* record by record are the events of one call of the batch detect_long_queue
\* on the records: the same records flagged, with the same durations.
streamed_long_queue ==
    {log[i] : i \in {j \in 1..Len(log) :
                        log[j].event_data.event_name = "Long Queue Length"}}
batch_long_queue ==
    LET events == detect_long_queue(queue_data)
    IN  {events[i] : i \in 1..Len(events)}
C36_LongQueueEquivalence == streamed_long_queue = batch_long_queue

\* C37: the dispatch of a queue record of one station leaves the queue state
\* of every other station as it was: no entry of another station appears or
\* disappears, and its run start and flagged set are unchanged.
C37_StationIndependence ==
    [][(last'.op = "process_incoming_row" /\ last' # last /\ last'.source = "queue") =>
          \A s \in (DOMAIN queue_state \cup DOMAIN queue_state')
                    \ {Get(last'.row, "station_id", "Unknown")} :
              /\ s \in DOMAIN queue_state /\ s \in DOMAIN queue_state'
              /\ queue_state'[s] = queue_state[s]
      ]_vars

\* a record of SCC2 started a run there while SCC1 keeps its run and the
\* start it has flagged
C37_Witness ==
    /\ last_is("queue")
    /\ last.row.station_id = "SCC2"
    /\ DOMAIN queue_state = {"SCC1", "SCC2"}
    /\ queue_state["SCC1"] = [start_time |-> {0}, flagged |-> {isoformat(0)}]
    /\ queue_state["SCC2"] = [start_time |-> {120}, flagged |-> {}]

\* C38: cleanup_caches only removes entries of the POS, RFID and recognition
\* caches and counters of the error aggregation: what it keeps is unchanged
\* and in its place, nothing is added; the sales counts, the queue state, the
\* catalog and the log are as before.
only_removed(before, after) ==
    after = SelectSeq(before, LAMBDA e : \E i \in 1..Len(after) : after[i] = e)
counters_removed(before, after) ==
    /\ DOMAIN after = DOMAIN before
    /\ \A s \in DOMAIN after :
           /\ DOMAIN after[s] \subseteq DOMAIN before[s]
           /\ \A b \in DOMAIN after[s] : after[s][b] = before[s][b]
C38_CleanupFrame ==
    [][(last'.op = "cleanup_caches" /\ last' # last) =>
          /\ only_removed(pos_skus_cache, pos_skus_cache')
          /\ only_removed(rfid_cache, rfid_cache')
          /\ only_removed(product_recognition_cache, product_recognition_cache')
          /\ counters_removed(error_aggregation, error_aggregation')
          /\ sales_count' = sales_count
          /\ queue_state' = queue_state
          /\ product_data_cache' = product_data_cache
          /\ log' = log
      ]_vars

\* a cleanup that removed a sale's entry and an error counter and kept the
\* recent ones, with sales counted, a queue run flagged and events logged
C38_Witness ==
    /\ last.op = "cleanup_caches"
    /\ Len(last.pos_before) = 2 /\ Len(pos_skus_cache) = 1
    /\ DOMAIN error_aggregation = {"SCC1"}
    /\ DOMAIN error_aggregation["SCC1"] = {Now0}
    /\ DOMAIN sales_count = {"A1", "A2"}
    /\ "SCC1" \in DOMAIN queue_state /\ queue_state["SCC1"].flagged # {}
    /\ Len(log) >= 3

\* C39: after every add_event each of the RFID, POS, queue and recognition
\* buffers holds at most buffer_size records; the buffer of the frame's
\* dataset holds the records it held and the new one, in arrival order, less
\* the oldest ones over buffer_size; the other buffers are unchanged, and a
\* frame of an unrecognised dataset changes no buffer.
most_recent(before, after, frame) ==
    LET received_now == Len(before) + 1
    IN  /\ Len(after) = (IF received_now > buffer_size THEN buffer_size ELSE received_now)
        /\ after[Len(after)].timestamp = frame.timestamp
        /\ after[Len(after)].data = frame.event.data
        /\ \A i \in 1..(Len(after) - 1) :
               after[i] = before[received_now - Len(after) + i]
buffer_after(dataset, before, after, frame) ==
    /\ Len(after) <= buffer_size
    /\ IF frame.dataset = dataset THEN most_recent(before, after, frame)
       ELSE after = before
C39_BatchBuffers ==
    [][last'.op = "add_event" =>
          /\ buffer_after("RFID_data", rfid_data, rfid_data', last'.frame)
          /\ buffer_after("POS_Transactions", pos_data, pos_data', last'.frame)
          /\ buffer_after("Queue_monitor", queue_data, queue_data', last'.frame)
          /\ buffer_after("Product_recognism", product_recognition,
                          product_recognition', last'.frame)
          /\ last'.frame.dataset \notin BufferedDatasets =>
                 inventory_data' \in {inventory_data,
                                      Append(inventory_data, payload_of(last'.frame))}
      ]_vars

\* the POS buffer full after two more records than it keeps: the first two
\* are gone, the last is the newest
C39_Witness ==
    /\ last.op = "add_event"
    /\ last.frame.dataset = "POS_Transactions"
    /\ Len(pos_data) = buffer_size
    /\ pos_data[1].timestamp = TS(3)
    /\ pos_data[buffer_size].timestamp = TS(buffer_size + 2)

====
